---- MODULE Spec2Model ----
(***************************************************************************)
(* A model of the fish-stocking alert backend: the tabular page parser,    *)
(* the deduplicating ingest into the SQLite store, the subscription        *)
(* matcher, the notification dispatcher, and the two poll-cycle drivers    *)
(* (runPollOnce inside the HTTP server and main of the standalone poller). *)
(*                                                                         *)
(* Strings are sequences of one-character strings, so that upper-casing,   *)
(* trimming, digit stripping and date matching are computed and not        *)
(* assumed.  A timestamp (toISOString of the wall clock) is the natural    *)
(* number of the clock tick; ISO strings of one format order as the clock. *)
(***************************************************************************)
EXTENDS Integers, Sequences, FiniteSets, TLC

(***************************************************************************)
(* Generic helpers                                                         *)
(***************************************************************************)
\* JavaScript null; a Number is the record [int, frac] of its decimal digits
NULL == [null |-> TRUE]

Range(s) == {s[i] : i \in 1..Len(s)}

SetMin(S) == CHOOSE x \in S : \A y \in S : x <= y

SetMax(S) == CHOOSE x \in S : \A y \in S : x >= y

RECURSIVE Concat(_)
Concat(ss) == IF ss = <<>> THEN <<>> ELSE Head(ss) \o Concat(Tail(ss))

RECURSIVE SumSeq(_)
SumSeq(s) == IF s = <<>> THEN 0 ELSE Head(s) + SumSeq(Tail(s))

(***************************************************************************)
(* JavaScript string primitives used by the backend                        *)
(***************************************************************************)
LowerCaseLetters ==
    <<"a","b","c","d","e","f","g","h","i","j","k","l","m",
      "n","o","p","q","r","s","t","u","v","w","x","y","z">>

UpperCaseLetters ==
    <<"A","B","C","D","E","F","G","H","I","J","K","L","M",
      "N","O","P","Q","R","S","T","U","V","W","X","Y","Z">>

ToUpperChar(c) ==
    IF \E i \in 1..26 : LowerCaseLetters[i] = c
    THEN UpperCaseLetters[CHOOSE i \in 1..26 : LowerCaseLetters[i] = c]
    ELSE c

\* String.prototype.toUpperCase
toUpperCase(s) == [i \in 1..Len(s) |-> ToUpperChar(s[i])]

ToLowerChar(c) ==
    IF \E i \in 1..26 : UpperCaseLetters[i] = c
    THEN LowerCaseLetters[CHOOSE i \in 1..26 : UpperCaseLetters[i] = c]
    ELSE c

\* String.prototype.toLowerCase
toLowerCase(s) == [i \in 1..Len(s) |-> ToLowerChar(s[i])]

IsSpace(c) == c \in {" ", "\t", "\n", "\r"}

\* String.prototype.trim
trim(s) ==
    LET keep == {i \in 1..Len(s) : ~IsSpace(s[i])}
    IN  IF keep = {} THEN <<>> ELSE SubSeq(s, SetMin(keep), SetMax(keep))

\* Array.prototype.includes
includes(arr, x) == \E i \in 1..Len(arr) : arr[i] = x

Digits == <<"0","1","2","3","4","5","6","7","8","9">>

IsDigit(c) == \E i \in 1..10 : Digits[i] = c

DigitVal(c) == (CHOOSE i \in 1..10 : Digits[i] = c) - 1

\* the value of a string of decimal digits
RECURSIVE DigitsVal(_)
DigitsVal(s) ==
    IF s = <<>> THEN 0
    ELSE 10 * DigitsVal(SubSeq(s, 1, Len(s) - 1)) + DigitVal(s[Len(s)])

\* String(n) of a non-negative integer
RECURSIVE NatToStr(_)
NatToStr(n) ==
    IF n < 10 THEN <<Digits[n + 1]>>
    ELSE NatToStr(n \div 10) \o <<Digits[(n % 10) + 1]>>

\* String.prototype.padStart(2, "0")
padStart2(s) == IF Len(s) < 2 THEN <<"0">> \o s ELSE s

(***************************************************************************)
(* dwrParser.js.  A page is the sequence of its <tr> blocks and a row the  *)
(* sequence of the inner texts of its <td> blocks (what the two match()    *)
(* calls cut out of the HTML); cells hold no script or style block.        *)
(***************************************************************************)
\* .replace(/<[^>]+>/g, " ")
RECURSIVE ReplaceTags(_)
ReplaceTags(s) ==
    IF s = <<>> THEN <<>>
    ELSE LET closers == {j \in 2..Len(s) : s[j] = ">"}
         IN  IF Head(s) = "<" /\ closers # {} /\ SetMin(closers) >= 3
             THEN <<" ">> \o ReplaceTags(SubSeq(s, SetMin(closers) + 1, Len(s)))
             ELSE <<Head(s)>> \o ReplaceTags(Tail(s))

\* .replace(/\s+/g, " ")
RECURSIVE CollapseSpaces(_)
CollapseSpaces(s) ==
    IF s = <<>> THEN <<>>
    ELSE IF IsSpace(Head(s))
         THEN LET rest == CollapseSpaces(Tail(s))
              IN  IF rest # <<>> /\ Head(rest) = " " THEN rest ELSE <<" ">> \o rest
         ELSE <<Head(s)>> \o CollapseSpaces(Tail(s))

stripTags(html) == trim(CollapseSpaces(ReplaceTags(html)))

\* the hex digest stands for its preimage: SHA-1 is taken to be injective
sha1(s) == <<"sha1">> \o s

\* s.match(/(\d{1,2})\/(\d{1,2})\/(\d{4})/): the matches <<start, month
\* length, day length>>; at one start at most one pair of lengths matches
DateMatches(s) ==
    {m \in (1..Len(s)) \X {1, 2} \X {1, 2} :
        LET i == m[1]
            a == m[2]
            b == m[3]
            last == i + a + b + 5
        IN  /\ last <= Len(s)
            /\ \A k \in i..(i + a - 1) : IsDigit(s[k])
            /\ s[i + a] = "/"
            /\ \A k \in (i + a + 1)..(i + a + b) : IsDigit(s[k])
            /\ s[i + a + b + 1] = "/"
            /\ \A k \in (i + a + b + 2)..last : IsDigit(s[k])}

normalizeDate(s) ==
    IF DateMatches(s) = {} THEN <<>>
    ELSE LET i == SetMin({m[1] : m \in DateMatches(s)})
             m == CHOOSE x \in DateMatches(s) : x[1] = i
             mm == padStart2(SubSeq(s, i, i + m[2] - 1))
             dd == padStart2(SubSeq(s, i + m[2] + 1, i + m[2] + m[3]))
             yyyy == SubSeq(s, i + m[2] + m[3] + 2, i + m[2] + m[3] + 5)
         IN  yyyy \o <<"-">> \o mm \o <<"-">> \o dd

NaN == [nan |-> TRUE]

\* parseInt(s, 10) of a string of digits
parseInt(s) == IF s = <<>> THEN NaN ELSE [int |-> DigitsVal(s), frac |-> <<>>]

\* the longest prefix of digits
RECURSIVE DigitPrefix(_)
DigitPrefix(s) ==
    IF s = <<>> \/ ~IsDigit(Head(s)) THEN <<>>
    ELSE <<Head(s)>> \o DigitPrefix(Tail(s))

RECURSIVE StripTrailingZeros(_)
StripTrailingZeros(s) ==
    IF s # <<>> /\ s[Len(s)] = "0"
    THEN StripTrailingZeros(SubSeq(s, 1, Len(s) - 1))
    ELSE s

\* parseFloat(s) of a string of digits and dots: the decimal number
\* int.frac, frac without trailing zeros
parseFloat(s) ==
    LET ip == DigitPrefix(s)
        rest == SubSeq(s, Len(ip) + 1, Len(s))
        fp == IF rest # <<>> /\ Head(rest) = "."
              THEN DigitPrefix(Tail(rest)) ELSE <<>>
    IN  IF ip = <<>> /\ fp = <<>> THEN NaN
        ELSE [int |-> DigitsVal(ip), frac |-> StripTrailingZeros(fp)]

\* Number.isFinite of a parse result
isFinite(n) == n # NaN

\* `${n}` of a Number
NumToStr(n) ==
    NatToStr(n.int) \o (IF n.frac = <<>> THEN <<>> ELSE <<".">> \o n.frac)

IsDigitOrDot(c) == IsDigit(c) \/ c = "."

\* the fingerprint ends with the time the row was seen
parseRow_StampedId(tds, now) ==
    IF Len(tds) < 6 THEN <<>>
    ELSE LET cells == [i \in 1..Len(tds) |-> stripTags(tds[i])]
             quantity == parseInt(SelectSeq(cells[4], IsDigit))
             avg_length == parseFloat(SelectSeq(cells[5], IsDigitOrDot))
             date_stocked == normalizeDate(cells[6])
             fingerprint ==
                 cells[1] \o <<"|">> \o cells[2] \o <<"|">> \o cells[3] \o <<"|">>
                 \o (IF isFinite(quantity) THEN NumToStr(quantity) ELSE <<>>) \o <<"|">>
                 \o (IF isFinite(avg_length) THEN NumToStr(avg_length) ELSE <<>>) \o <<"|">>
                 \o date_stocked \o <<"|">> \o NatToStr(now)
         IN  IF cells[1] = <<>> \/ cells[2] = <<>> \/ cells[3] = <<>> \/ date_stocked = <<>>
             THEN <<>>
             ELSE << [id |-> sha1(fingerprint),
                      water_name |-> cells[1],
                      county |-> cells[2],
                      species |-> cells[3],
                      quantity |-> IF isFinite(quantity) THEN quantity ELSE NULL,
                      avg_length |-> IF isFinite(avg_length) THEN avg_length ELSE NULL,
                      date_stocked |-> date_stocked,
                      first_seen_at |-> now] >>

\* a row without a usable quantity is skipped like one without a date
parseRow_QuantityRequired(tds, now) ==
    IF Len(tds) < 6 THEN <<>>
    ELSE LET cells == [i \in 1..Len(tds) |-> stripTags(tds[i])]
             quantity == parseInt(SelectSeq(cells[4], IsDigit))
             avg_length == parseFloat(SelectSeq(cells[5], IsDigitOrDot))
             date_stocked == normalizeDate(cells[6])
             fingerprint ==
                 cells[1] \o <<"|">> \o cells[2] \o <<"|">> \o cells[3] \o <<"|">>
                 \o (IF isFinite(quantity) THEN NumToStr(quantity) ELSE <<>>) \o <<"|">>
                 \o (IF isFinite(avg_length) THEN NumToStr(avg_length) ELSE <<>>) \o <<"|">>
                 \o date_stocked
         IN  IF cells[1] = <<>> \/ cells[2] = <<>> \/ cells[3] = <<>> \/ date_stocked = <<>>
                \/ ~isFinite(quantity)
             THEN <<>>
             ELSE << [id |-> sha1(fingerprint),
                      water_name |-> cells[1],
                      county |-> cells[2],
                      species |-> cells[3],
                      quantity |-> quantity,
                      avg_length |-> IF isFinite(avg_length) THEN avg_length ELSE NULL,
                      date_stocked |-> date_stocked,
                      first_seen_at |-> now] >>

\* one iteration of the row loop: <<>> if the row is skipped, else <<event>>
parseRow(tds, now) ==
    IF Len(tds) < 6 THEN <<>>
    ELSE LET cells == [i \in 1..Len(tds) |-> stripTags(tds[i])]
             water_name == cells[1]
             county == cells[2]
             species == cells[3]
             quantity == parseInt(SelectSeq(cells[4], IsDigit))
             avg_length == parseFloat(SelectSeq(cells[5], IsDigitOrDot))
             date_stocked == normalizeDate(cells[6])
             fingerprint ==
                 water_name \o <<"|">> \o county \o <<"|">> \o species \o <<"|">>
                 \o (IF isFinite(quantity) THEN NumToStr(quantity) ELSE <<>>) \o <<"|">>
                 \o (IF isFinite(avg_length) THEN NumToStr(avg_length) ELSE <<>>) \o <<"|">>
                 \o date_stocked
         IN  IF water_name = <<>> \/ county = <<>> \/ species = <<>> \/ date_stocked = <<>>
             THEN <<>>
             ELSE << [id |-> sha1(fingerprint),
                      water_name |-> water_name,
                      county |-> county,
                      species |-> species,
                      quantity |-> IF isFinite(quantity) THEN quantity ELSE NULL,
                      avg_length |-> IF isFinite(avg_length) THEN avg_length ELSE NULL,
                      date_stocked |-> date_stocked,
                      first_seen_at |-> now] >>

\* of the events of one id the last one stays
RECURSIVE dedupById_KeepLast(_, _)
dedupById_KeepLast(events, seen) ==
    IF events = <<>> THEN <<>>
    ELSE IF \E k \in 2..Len(events) : events[k].id = Head(events).id
         THEN dedupById_KeepLast(Tail(events), seen)
         ELSE <<Head(events)>> \o dedupById_KeepLast(Tail(events), seen)

\* events.filter((e) => (seen.has(e.id) ? false : (seen.add(e.id), true)))
RECURSIVE dedupById(_, _)
dedupById(events, seen) ==
    IF events = <<>> THEN <<>>
    ELSE IF Head(events).id \in seen THEN dedupById(Tail(events), seen)
         ELSE <<Head(events)>> \o dedupById(Tail(events), seen \cup {Head(events).id})

parseDwrFishStockingHtml(html, now) ==
    dedupById(Concat([r \in 1..Len(html) |-> parseRow(html[r], now)]), {})

(***************************************************************************)
(* coParser.js, fetchColoradoEvents from the lines of the section on: the  *)
(* input is section.split("\n"), the lines of the text between the start   *)
(* marker and the archive link.  Its normalizeDate is the one of           *)
(* dwrParser.js applied to String(s || "").                                *)
(***************************************************************************)
\* the labels the filter of `lines` removes
HeaderLabels ==
    {<<"b","o","d","y"," ","o","f"," ","w","a","t","e","r">>, <<"r","e","g","i","o","n">>, <<"r","e","p","o","r","t"," ","d","a","t","e">>,
     <<"l","i","n","k">>, <<"a","t","l","a","s">>, <<"a","t","l","a","s","+">>}

\* const bad = new Set([...])
bad ==
    HeaderLabels \cup {<<"t","r","o","u","t"," ","s","t","o","c","k","i","n","g"," ","r","e","p","o","r","t">>,
                       <<"v","i","e","w"," ","s","t","o","c","k","i","n","g"," ","r","e","p","o","r","t"," ","a","r","c","h","i","v","e">>}

\* .map((l) => l.trim()).filter(Boolean).filter((l) => ![...].includes(l.toLowerCase()))
lines(section) ==
    SelectSeq(SelectSeq([k \in 1..Len(section) |-> trim(section[k])], LAMBDA l : l # <<>>),
              LAMBDA l : toLowerCase(l) \notin HeaderLabels)

\* a character of \w
IsWordChar(c) ==
    \/ IsDigit(c)
    \/ c = "_"
    \/ \E i \in 1..26 : c = LowerCaseLetters[i] \/ c = UpperCaseLetters[i]

\* /\b\d{1,2}\/\d{1,2}\/\d{4}\b/.test(String(x || ""))
isDate(x) ==
    \E m \in DateMatches(x) :
        LET first == m[1]
            last == m[1] + m[2] + m[3] + 5
        IN  /\ first > 1 => ~IsWordChar(x[first - 1])
            /\ last < Len(x) => ~IsWordChar(x[last + 1])

clean(s) == trim(s)

isBad(s) == toLowerCase(clean(s)) \in bad

TROUT == <<"T","R","O","U","T">>

\* the event pushed for the triple a, b, c
coEvent(a, b, c, now) ==
    LET water_name == a
        county == toUpperCase(b)
        species == TROUT
        date_stocked == normalizeDate(c)
    IN  [id |-> sha1(<<"C","O","|">> \o water_name \o <<"|">> \o county \o <<"|">>
                     \o species \o <<"|">> \o date_stocked),
         water_name |-> water_name,
         county |-> county,
         species |-> species,
         quantity |-> NULL,
         avg_length |-> NULL,
         date_stocked |-> date_stocked,
         first_seen_at |-> now]

\* the three lines at i are taken as a triple if they are non-empty, no
\* label, and of the shape water, region, date
tripleAt(ls, i) ==
    LET a == clean(ls[i])
        b == clean(ls[i + 1])
        c == clean(ls[i + 2])
    IN  /\ a # <<>> /\ b # <<>> /\ c # <<>>
        /\ ~isBad(a) /\ ~isBad(b) /\ ~isBad(c)
        /\ ~isDate(a) /\ ~isDate(b) /\ isDate(c)
        /\ normalizeDate(c) # <<>>

\* the lines are cut into threes from the start, a rejected three is passed
\* over whole
walk_FixedStride(ls, i, now) ==
    LET RECURSIVE go(_)
        go(j) == IF j > Len(ls) - 2 THEN <<>>
                 ELSE IF tripleAt(ls, j)
                      THEN <<coEvent(clean(ls[j]), clean(ls[j + 1]), clean(ls[j + 2]), now)>>
                           \o go(j + 3)
                      ELSE go(j + 3)
    IN  go(i)

\* for (let i = 0; i < lines.length - 2; i++) { ... i += 2; }: from line i
\* on (the first line is line 1)
RECURSIVE walk(_, _, _)
walk(ls, i, now) ==
    IF i > Len(ls) - 2 THEN <<>>
    ELSE IF tripleAt(ls, i)
         THEN <<coEvent(clean(ls[i]), clean(ls[i + 1]), clean(ls[i + 2]), now)>>
              \o walk(ls, i + 3, now)
         ELSE walk(ls, i + 1, now)

fetchColoradoEvents(section, now) == dedupById(walk(lines(section), 1, now), {})

(***************************************************************************)
(* notify.js                                                               *)
(***************************************************************************)
\* the filter values are compared as stored, without upper-casing
matchesSubscription_RawFilter(event, sub) ==
    LET evCounty == trim(toUpperCase(event.county))
        evSpecies == trim(toUpperCase(event.species))
        evWater == trim(toUpperCase(event.water_name))
        countyOk == Len(sub.counties) = 0 \/ includes(sub.counties, evCounty)
        speciesOk == Len(sub.species) = 0 \/ includes(sub.species, evSpecies)
        waterOk == Len(sub.waters) = 0 \/ includes(sub.waters, evWater)
    IN  countyOk /\ speciesOk /\ waterOk

matchesSubscription(event, sub) ==
    LET evCounty == trim(toUpperCase(event.county))
        evSpecies == trim(toUpperCase(event.species))
        evWater == trim(toUpperCase(event.water_name))
        subCounties == [i \in 1..Len(sub.counties) |-> trim(toUpperCase(sub.counties[i]))]
        subSpecies == [i \in 1..Len(sub.species) |-> trim(toUpperCase(sub.species[i]))]
        subWaters == [i \in 1..Len(sub.waters) |-> trim(toUpperCase(sub.waters[i]))]
        countyOk == Len(subCounties) = 0 \/ includes(subCounties, evCounty)
        speciesOk == Len(subSpecies) = 0 \/ includes(subSpecies, evSpecies)
        waterOk == Len(subWaters) = 0 \/ includes(subWaters, evWater)
    IN  countyOk /\ speciesOk /\ waterOk

\* Number.prototype.toLocaleString of a non-negative integer (en-US grouping)
RECURSIVE GroupThousands(_)
GroupThousands(ds) ==
    IF Len(ds) <= 3 THEN ds
    ELSE GroupThousands(SubSeq(ds, 1, Len(ds) - 3)) \o <<",">>
         \o SubSeq(ds, Len(ds) - 2, Len(ds))

toLocaleString(n) ==
    GroupThousands(NatToStr(n.int)) \o (IF n.frac = <<>> THEN <<>> ELSE <<".">> \o n.frac)

\* the truthiness of a Number or null
truthy(n) == n # NULL /\ n # NaN /\ ~(n.int = 0 /\ n.frac = <<>>)

\* the two characters outside ASCII, each one element of a string
EMDASH == "EMDASH"

BULLET == "BULLET"

formatNotification(event) ==
    LET qty == IF truthy(event.quantity)
               THEN toLocaleString(event.quantity) \o <<" ","f","i","s","h">>
               ELSE <<"F","i","s","h"," ","s","t","o","c","k","e","d">>
        len == IF truthy(event.avg_length)
               THEN <<" ", BULLET, " ">> \o NumToStr(event.avg_length)
                    \o <<"\""," ","a","v","g">>
               ELSE <<>>
    IN  [title |-> <<"S","t","o","c","k","e","d",":"," ">> \o event.species,
         body |-> event.water_name \o <<" ","(">> \o event.county \o <<")"," ",EMDASH," ">>
                  \o qty \o len \o <<" ",EMDASH," ">> \o event.date_stocked,
         data |-> [eventId |-> event.id]]

(***************************************************************************)
(* The loops shared by runPollOnce (runPollOnce.js) and main (poller.js)   *)
(***************************************************************************)
\* the messages one event yields, one per subscription that has a token and
\* matches, in the order of the subscriptions
RECURSIVE messagesOfEvent(_, _)
messagesOfEvent(ev, subs) ==
    IF subs = <<>> THEN <<>>
    ELSE LET sub == Head(subs)
             n == formatNotification(ev)
         IN  (IF sub.expo_push_token = "" \/ ~matchesSubscription(ev, sub) THEN <<>>
              ELSE << [to |-> sub.expo_push_token, sound |-> "default",
                       title |-> n.title, body |-> n.body, data |-> n.data] >>)
             \o messagesOfEvent(ev, Tail(subs))

\* for (const ev of ...) for (const sub of subs) ... messages.push(...)
buildMessages(evs, subs) ==
    Concat([k \in 1..Len(evs) |-> messagesOfEvent(evs[k], subs)])

\* `${m.to}|${m.data?.eventId}`: the event id is a digest of fixed length, so
\* the joined string determines the pair and the pair stands for it
dedupKey(m) == <<m.to, m.data.eventId>>

\* the messages go out as they were built
dedupMessages_None(messages) == messages

\* dedup.set(key, m) for every message, then Array.from(dedup.values()): a Map
\* keeps a key at the place of its first set() and the value of its last
dedupMessages(messages) ==
    LET firsts == SelectSeq([k \in 1..Len(messages) |-> k],
                            LAMBDA k : \A j \in 1..(k - 1) :
                                          dedupKey(messages[j]) # dedupKey(messages[k]))
        lastOf(k) == SetMax({j \in 1..Len(messages) :
                               dedupKey(messages[j]) = dedupKey(messages[k])})
    IN  [x \in 1..Len(firsts) |-> messages[lastOf(firsts[x])]]

(***************************************************************************)
(* db.js                                                                   *)
(***************************************************************************)
idsOf(rows) == {rows[k].id : k \in 1..Len(rows)}

\* a plain INSERT into a table without the primary key
insertRun_NoIgnore(committed, written, e) ==
    [committed |-> committed, written |-> Append(written, e), changes |-> 1]

\* the loop counts every run, ignored or not
insertRun_CountsIgnored(committed, written, e) ==
    IF e.id \in idsOf(committed) \cup idsOf(written)
    THEN [committed |-> committed, written |-> written, changes |-> 1]
    ELSE [committed |-> committed, written |-> Append(written, e), changes |-> 1]

\* the loop runs outside a transaction: every statement commits at once
insertRun_Autocommit(committed, written, e) ==
    IF e.id \in idsOf(committed) \cup idsOf(written)
    THEN [committed |-> committed, written |-> written, changes |-> 0]
    ELSE [committed |-> Append(committed, e), written |-> written, changes |-> 1]

\* INSERT OR REPLACE: the row of a known id is written anew
insertRun_Replace(committed, written, e) ==
    IF e.id \in idsOf(committed)
    THEN [committed |-> [k \in 1..Len(committed) |->
                            IF committed[k].id = e.id THEN e ELSE committed[k]],
          written |-> written, changes |-> 1]
    ELSE IF e.id \in idsOf(written)
         THEN [committed |-> committed, written |-> written, changes |-> 0]
         ELSE [committed |-> committed, written |-> Append(written, e), changes |-> 1]

\* insert.run(e) of INSERT OR IGNORE inside the transaction: the statement
\* sees the committed rows and the rows the transaction wrote so far; a new
\* id is written to the transaction and leaves the committed rows as they
\* are, a known one changes nothing
insertRun(committed, written, e) ==
    IF e.id \in idsOf(committed) \cup idsOf(written)
    THEN [committed |-> committed, written |-> written, changes |-> 0]
    ELSE [committed |-> committed, written |-> Append(written, e), changes |-> 1]

\* COMMIT: the rows the transaction wrote become visible, all at once
commitTx(committed, written) == committed \o written

\* the query without its LIMIT
selectByFirstSeen_All(rows, n) ==
    {f \in [1..Len(rows) -> Range(rows)] :
        /\ \A a, b \in 1..Len(rows) : a < b =>
              f[a] # f[b] /\ f[a].first_seen_at >= f[b].first_seen_at}

\* SELECT * FROM stock_events ORDER BY first_seen_at DESC LIMIT n: the
\* possible results; SQL leaves the order among equal first_seen_at open
selectByFirstSeen(rows, n) ==
    LET k == IF n < Len(rows) THEN n ELSE Len(rows)
        picks == {f \in [1..k -> 1..Len(rows)] :
                    /\ \A a, b \in 1..k : a < b =>
                          /\ f[a] # f[b]
                          /\ rows[f[a]].first_seen_at >= rows[f[b]].first_seen_at
                    /\ \A a \in 1..k : \A r \in 1..Len(rows) :
                          (\A b \in 1..k : f[b] # r) =>
                              rows[r].first_seen_at <= rows[f[a]].first_seen_at}
    IN  {[a \in 1..k |-> rows[f[a]]] : f \in picks}

\* on a conflict the new values are added to the stored ones
upsertSubscription_Merge(rows, s) ==
    LET row == [expo_push_token |-> s.expo_push_token,
                counties |-> IF s.counties = NULL THEN <<>> ELSE s.counties.array,
                species |-> IF s.species = NULL THEN <<>> ELSE s.species.array,
                waters |-> IF s.waters = NULL THEN <<>> ELSE s.waters.array]
    IN  IF \E k \in 1..Len(rows) : rows[k].expo_push_token = s.expo_push_token
        THEN [k \in 1..Len(rows) |->
                 IF rows[k].expo_push_token = s.expo_push_token
                 THEN [expo_push_token |-> row.expo_push_token,
                       counties |-> rows[k].counties \o row.counties,
                       species |-> rows[k].species \o row.species,
                       waters |-> rows[k].waters \o row.waters]
                 ELSE rows[k]]
        ELSE Append(rows, row)

\* INSERT ... ON CONFLICT(expo_push_token) DO UPDATE SET the three filters;
\* `x ?? []` of each filter ([array |-> a] is the array a).  The row keeps
\* its place on a conflict.
\* created_at is written once and read by no query, it is left out.
upsertSubscription(rows, s) ==
    LET row == [expo_push_token |-> s.expo_push_token,
                counties |-> IF s.counties = NULL THEN <<>> ELSE s.counties.array,
                species |-> IF s.species = NULL THEN <<>> ELSE s.species.array,
                waters |-> IF s.waters = NULL THEN <<>> ELSE s.waters.array]
    IN  IF \E k \in 1..Len(rows) : rows[k].expo_push_token = s.expo_push_token
        THEN [k \in 1..Len(rows) |->
                 IF rows[k].expo_push_token = s.expo_push_token THEN row ELSE rows[k]]
        ELSE Append(rows, row)

(***************************************************************************)
(* Bounds and inputs                                                       *)
(***************************************************************************)
\* poll cycles started in one behaviour
MaxCycles == 2

\* POST /subscribe requests served in one behaviour
MaxSubscribes == 2

\* the cycles that can be in flight: a request to POST /run-poller in the
\* server process and a run of the standalone poller process
HttpProcs == {"http"}

ProcSeq == <<"http", "cron">>

Procs == Range(ProcSeq)

NoProc == "none"

BlueLake == <<"B","l","u","e"," ","L","a","k","e">>

GreenLake == <<"G","r","e","e","n"," ","L","a","k","e">>

Wasatch == <<"W","a","s","a","t","c","h">>

Summit == <<"S","u","m","m","i","t">>

RainbowTrout == <<"R","a","i","n","b","o","w"," ","T","r","o","u","t">>

BrownTrout == <<"B","r","o","w","n"," ","T","r","o","u","t">>

RowA ==
    << BlueLake, Wasatch, RainbowTrout, <<"1",",","2","0","0">>,
       <<"1","0",".","5">>, <<"3","/","4","/","2","0","2","6">> >>

RowB ==
    << GreenLake, Summit, BrownTrout, <<>>, <<>>,
       <<"3","/","5","/","2","0","2","6">> >>

\* the pages the source can answer a fetch with
Pages == {<<RowA>>, <<RowB>>, <<RowA, RowB>>}

TestToken == "ExponentPushToken[TESTTOKEN]"

\* String(m.to).includes("TESTTOKEN") over the tokens of the model
includesTESTTOKEN(token) == token = TestToken

\* an array in a request body
Arr(a) == [array |-> a]

\* the bodies POST /subscribe can receive; a filter is an array or missing
SubscribeBodies ==
    {[expo_push_token |-> "TOK1", counties |-> Arr(<< toUpperCase(Wasatch) >>),
      species |-> Arr(<<>>), waters |-> Arr(<<>>)],
     [expo_push_token |-> "TOK1", counties |-> NULL, species |-> NULL, waters |-> NULL],
     [expo_push_token |-> "TOK2", counties |-> Arr(<< <<"s","u","m","m","i","t"," ">> >>),
      species |-> Arr(<< toUpperCase(BrownTrout), toUpperCase(RainbowTrout) >>),
      waters |-> Arr(<<>>)],
     [expo_push_token |-> "TOK2", counties |-> Arr(<<>>), species |-> NULL,
      waters |-> Arr(<< BlueLake >>)],
     [expo_push_token |-> TestToken, counties |-> Arr(<<>>), species |-> Arr(<<>>),
      waters |-> Arr(<<>>)],
     [expo_push_token |-> "", counties |-> Arr(<<>>), species |-> Arr(<<>>),
      waters |-> Arr(<<>>)]}

(***************************************************************************)
(* State                                                                   *)
(***************************************************************************)
VARIABLES
    stock_events,   \* the committed rows of table stock_events, in rowid order
    subscriptions,  \* the rows of table subscriptions, in rowid order
    writer,         \* the connection that holds SQLite's write lock
    now,            \* the wall clock at the last timestamp taken
    started,        \* poll cycles started so far
    subscribed,     \* the bodies of the POST /subscribe requests served, in order
    cyc,            \* per cycle in flight: its position and its locals
    hist,           \* the cycles that ended, in the order they ended
    arg,            \* a function of the backend applied on its own: its input
    res             \* <<>>, or << its result >>; of a loop run step by step, its locals

vars == <<stock_events, subscriptions, writer, now, started, subscribed, cyc, hist,
          arg, res>>

\* no function is applied on its own
NoArg == [fn |-> "none"]

Idle(p) ==
    [proc |-> p, pc |-> "idle", events |-> <<>>, i |-> 0, inserted |-> 0, written |-> <<>>,
     insertedCount |-> 0, newOnes |-> <<>>, subs |-> <<>>, checked |-> <<>>,
     finalMsgs |-> <<>>, calls |-> <<>>]

\* the server and the poller after start-up, on an empty database
InitStore ==
    /\ stock_events = <<>>
    /\ subscriptions = <<>>
    /\ writer = NoProc
    /\ now = 0
    /\ started = 0
    /\ subscribed = <<>>
    /\ cyc = [p \in Procs |-> Idle(p)]
    /\ hist = <<>>

Init ==
    /\ InitStore
    /\ arg = NoArg
    /\ res = <<>>

\* between the awaits a cycle of the server runs to its next await while
\* nothing else of the server process runs; the poller is a process of its
\* own and runs whatever the server does
InSync(q) == cyc[q].pc \in {"tx", "select", "match"}

ServerFree(p) == p \in HttpProcs => \A q \in HttpProcs \ {p} : ~InSync(q)

\* the cycle of p ends with locals c: what it did, and the step it ended at,
\* is appended to the history
End(p, c, outcome, summary) ==
    /\ hist' = Append(hist, [proc |-> p, at |-> c.pc, outcome |-> outcome,
                              summary |-> summary,
                              events |-> c.events, written |-> c.written,
                              insertedCount |-> c.insertedCount,
                              newOnes |-> c.newOnes, subs |-> c.subs,
                              checked |-> c.checked,
                              finalMsgs |-> c.finalMsgs, calls |-> c.calls])
    /\ cyc' = [cyc EXCEPT ![p] = Idle(p)]

(***************************************************************************)
(* A poll cycle: runPollOnce for the server's cycles, main for the poller  *)
(***************************************************************************)
\* POST /run-poller calls runPollOnce, or the poller process starts main:
\* the fetch of the page is awaited
startCycle(p) ==
    /\ cyc[p].pc = "idle"
    /\ started < MaxCycles
    /\ started' = started + 1
    /\ cyc' = [cyc EXCEPT ![p].pc = "fetch"]
    /\ UNCHANGED <<stock_events, subscriptions, writer, now, subscribed, hist, arg, res>>

\* the failed fetch is reported as a cycle that found nothing
fetchFailed_ZeroSummary(p) ==
    /\ cyc[p].pc = "fetch"
    /\ End(p, cyc[p], "summary",
           [parsed |-> 0, inserted |-> 0, subscriptions |-> 0, matchedMessages |-> 0,
            pushed |-> 0, expoResponse |-> NULL])
    /\ UNCHANGED <<stock_events, subscriptions, writer, now, started, subscribed,
                   arg, res>>

\* if (!res.ok) throw new Error(`Fetch failed: ...`), or fetch rejects
fetchFailed(p) ==
    /\ cyc[p].pc = "fetch"
    /\ End(p, cyc[p], "error", NULL)
    /\ UNCHANGED <<stock_events, subscriptions, writer, now, started, subscribed,
                   arg, res>>

\* the page arrives and is parsed, every event stamped with the clock, and
\* insertNewEvents begins its transaction.  The events of one page share a
\* stamp; the clock has moved on since the parse before (no two cycles parse
\* within the same millisecond)
fetchOk(p) ==
    /\ cyc[p].pc = "fetch"
    /\ ServerFree(p)
    /\ \E html \in Pages, t \in {now + 1} :
          /\ now' = t
          /\ cyc' = [cyc EXCEPT ![p] =
                        [@ EXCEPT !.pc = "tx",
                                  !.events = parseDwrFishStockingHtml(html, t),
                                  !.i = 1, !.inserted = 0, !.written = <<>>]]
    /\ UNCHANGED <<stock_events, subscriptions, writer, started, subscribed, hist, arg, res>>

\* one turn of the loop of the transaction: insert.run(e) takes the write
\* lock (it waits while another connection holds it) and counts a change
txInsert(p) ==
    /\ cyc[p].pc = "tx"
    /\ cyc[p].i <= Len(cyc[p].events)
    /\ writer \in {NoProc, p}
    /\ LET r == insertRun(stock_events, cyc[p].written, cyc[p].events[cyc[p].i])
       IN  /\ stock_events' = r.committed
           /\ cyc' = [cyc EXCEPT ![p] =
                          [@ EXCEPT !.written = r.written,
                                    !.inserted = @ + r.changes,
                                    !.i = @ + 1]]
    /\ writer' = p
    /\ UNCHANGED <<subscriptions, now, started, subscribed, hist, arg, res>>

\* the loop is over: COMMIT, and tx(events) returns the count
txCommit(p) ==
    /\ cyc[p].pc = "tx"
    /\ cyc[p].i > Len(cyc[p].events)
    /\ stock_events' = commitTx(stock_events, cyc[p].written)
    /\ writer' = IF writer = p THEN NoProc ELSE writer
    /\ cyc' = [cyc EXCEPT ![p] =
                  [@ EXCEPT !.pc = "select", !.insertedCount = cyc[p].inserted]]
    /\ UNCHANGED <<subscriptions, now, started, subscribed, hist, arg, res>>

\* the error of the transaction is caught and the counts known so far returned
txFailed_PartialSummary(p) ==
    /\ cyc[p].pc = "tx"
    /\ writer' = IF writer = p THEN NoProc ELSE writer
    /\ End(p, [cyc[p] EXCEPT !.written = <<>>, !.inserted = 0], "summary",
           [parsed |-> Len(cyc[p].events)])
    /\ UNCHANGED <<stock_events, subscriptions, now, started, subscribed, arg, res>>

\* insert.run or the COMMIT throws (SQLITE_BUSY after the busy timeout, an I/O
\* error): db.transaction rolls back what the loop wrote and rethrows, and the
\* cycle ends with the error
txFailed(p) ==
    /\ cyc[p].pc = "tx"
    /\ writer' = IF writer = p THEN NoProc ELSE writer
    /\ End(p, [cyc[p] EXCEPT !.written = <<>>, !.inserted = 0], "error", NULL)
    /\ UNCHANGED <<stock_events, subscriptions, now, started, subscribed, arg, res>>

\* newOnes: the query after the transaction, on the committed rows
selectNewOnes(p) ==
    /\ cyc[p].pc = "select"
    /\ \E rows \in selectByFirstSeen(stock_events, cyc[p].insertedCount) :
          cyc' = [cyc EXCEPT ![p] = [@ EXCEPT !.pc = "match", !.newOnes = rows]]
    /\ UNCHANGED <<stock_events, subscriptions, writer, now, started, subscribed, hist,
                   arg, res>>

\* runPollOnce from listSubscriptions() to the call of sendExpoPushMessages
\* or, without messages, to the return of the summary
matchRunPollOnce(p) ==
    /\ p \in HttpProcs
    /\ cyc[p].pc = "match"
    /\ LET subs == subscriptions
           finalMsgs == dedupMessages(buildMessages(cyc[p].newOnes, subs))
           c == [cyc[p] EXCEPT !.subs = subs, !.checked = cyc[p].newOnes,
                               !.finalMsgs = finalMsgs]
       IN  IF Len(finalMsgs) > 0
           THEN /\ cyc' = [cyc EXCEPT ![p] =
                              [c EXCEPT !.pc = "push", !.calls = Append(@, finalMsgs)]]
                /\ hist' = hist
           ELSE End(p, c, "summary",
                    [parsed |-> Len(c.events), inserted |-> c.insertedCount,
                     subscriptions |-> Len(subs), matchedMessages |-> Len(finalMsgs),
                     pushed |-> 0, expoResponse |-> NULL])
    /\ UNCHANGED <<stock_events, subscriptions, writer, now, started, subscribed,
                   arg, res>>

\* main from listSubscriptions() to the call of sendExpoPushMessages or to
\* one of its three early returns
matchMain(p) ==
    /\ p \notin HttpProcs
    /\ cyc[p].pc = "match"
    /\ LET subs == subscriptions
           eventsToCheck == IF cyc[p].insertedCount > 0 THEN cyc[p].newOnes
                            ELSE SubSeq(cyc[p].events, 1,
                                        IF Len(cyc[p].events) < 10
                                        THEN Len(cyc[p].events) ELSE 10)
           finalMsgs == dedupMessages(buildMessages(eventsToCheck, subs))
           hasTestToken == \E k \in 1..Len(finalMsgs) : includesTESTTOKEN(finalMsgs[k].to)
           c == [cyc[p] EXCEPT !.subs = subs, !.checked = eventsToCheck,
                               !.finalMsgs = finalMsgs]
       IN  IF Len(subs) = 0
           THEN End(p, [cyc[p] EXCEPT !.subs = subs], "returned", NULL)
           ELSE IF Len(finalMsgs) = 0 \/ hasTestToken
                THEN End(p, c, "returned", NULL)
                ELSE /\ cyc' = [cyc EXCEPT ![p] =
                                   [c EXCEPT !.pc = "push", !.calls = Append(@, finalMsgs)]]
                     /\ hist' = hist
    /\ UNCHANGED <<stock_events, subscriptions, writer, now, started, subscribed,
                   arg, res>>

\* await res.json(): the body of the transport's answer, opaque to the backend
ExpoJson == [data |-> "tickets"]

\* sendExpoPushMessages after its await, the transport answered 2xx: it
\* returns {ok, sent: messages.length, response}
pushOk(p) ==
    /\ cyc[p].pc = "push"
    /\ LET result == [ok |-> TRUE, sent |-> Len(cyc[p].finalMsgs), response |-> ExpoJson]
       IN  IF p \in HttpProcs
           THEN End(p, cyc[p], "summary",
                    [parsed |-> Len(cyc[p].events), inserted |-> cyc[p].insertedCount,
                     subscriptions |-> Len(cyc[p].subs),
                     matchedMessages |-> Len(cyc[p].finalMsgs),
                     pushed |-> result.sent, expoResponse |-> result.response])
           ELSE End(p, cyc[p], "returned", NULL)
    /\ UNCHANGED <<stock_events, subscriptions, writer, now, started, subscribed,
                   arg, res>>

\* the failed call is made again
pushFailed_Retry(p) ==
    /\ cyc[p].pc = "push"
    /\ cyc' = [cyc EXCEPT ![p].calls = Append(@, cyc[p].finalMsgs)]
    /\ UNCHANGED <<stock_events, subscriptions, writer, now, started, subscribed, hist,
                   arg, res>>

\* the transport answered with a non-success status (or the request failed):
\* sendExpoPushMessages throws, and so does the cycle
pushFailed(p) ==
    /\ cyc[p].pc = "push"
    /\ End(p, cyc[p], "error", NULL)
    /\ UNCHANGED <<stock_events, subscriptions, writer, now, started, subscribed,
                   arg, res>>

(***************************************************************************)
(* index.js: POST /subscribe                                               *)
(***************************************************************************)
\* Array.isArray of a filter of the body
isArray(x) == x # NULL

\* 400: expo_push_token required
subscribeRejected(body) ==
    /\ Len(subscribed) < MaxSubscribes
    /\ \A q \in HttpProcs : ~InSync(q)
    /\ body.expo_push_token = ""
    /\ subscribed' = Append(subscribed, body)
    /\ UNCHANGED <<stock_events, subscriptions, writer, now, started, cyc, hist, arg, res>>

subscribeOk(body) ==
    /\ Len(subscribed) < MaxSubscribes
    /\ \A q \in HttpProcs : ~InSync(q)
    /\ body.expo_push_token # ""
    /\ writer = NoProc
    /\ subscriptions' =
          upsertSubscription(subscriptions,
              [expo_push_token |-> body.expo_push_token,
               counties |-> IF isArray(body.counties) THEN body.counties ELSE Arr(<<>>),
               species |-> IF isArray(body.species) THEN body.species ELSE Arr(<<>>),
               waters |-> IF isArray(body.waters) THEN body.waters ELSE Arr(<<>>)])
    /\ subscribed' = Append(subscribed, body)
    /\ UNCHANGED <<stock_events, writer, now, started, cyc, hist, arg, res>>

Next ==
    \/ \E p \in Procs : startCycle(p)
    \/ \E p \in Procs : fetchFailed(p)
    \/ \E p \in Procs : fetchOk(p)
    \/ \E p \in Procs : txInsert(p)
    \/ \E p \in Procs : txCommit(p)
    \/ \E p \in Procs : txFailed(p)
    \/ \E p \in Procs : selectNewOnes(p)
    \/ \E p \in Procs : matchRunPollOnce(p)
    \/ \E p \in Procs : matchMain(p)
    \/ \E p \in Procs : pushOk(p)
    \/ \E p \in Procs : pushFailed(p)
    \/ \E body \in SubscribeBodies : subscribeRejected(body)
    \/ \E body \in SubscribeBodies : subscribeOk(body)

Spec == Init /\ [][Next]_vars

(***************************************************************************)
(* The matcher, the dispatcher's dedup, the two parsers and the date       *)
(* normalisation applied on their own, to inputs the poll cycles of this   *)
(* model cannot produce (filters of every shape, message lists with        *)
(* repeated keys, rows and dates of every shape, free-text sections)       *)
(***************************************************************************)
\* messages in one list given to dedupMessages
MaxMsgs == 3

WA == <<"W","A">>

SU == <<"S","U">>

MatchEvents ==
    [water_name : {<<"B","l">>, <<"G","r">>},
     county : {WA, <<"W","a">>, SU, <<"W","A","S">>},
     species : {<<"R","T">>, <<"b","t">>}]

MatchSubs ==
    [expo_push_token : {"TOK1"},
     counties : {<<>>, <<WA>>, << <<" ","w","a"," ">> >>, <<SU, WA>>, << <<"W">> >>},
     species : {<<>>, << <<"r","t">> >>},
     waters : {<<>>, << <<"B","L">> >>, << <<"G","R">>, <<"B","L"," ">> >>}]

MatchArgs == [fn : {"matchesSubscription"}, event : MatchEvents, sub : MatchSubs]

DedupMsgs ==
    [to : {"TOK1", "TOK2"}, sound : {"default"}, title : {<<"S">>},
     body : {<<"x">>, <<"y">>},
     data : [eventId : {sha1(<<"a">>), sha1(<<"b">>)}]]

DedupArgs ==
    [fn : {"dedupMessages"},
     messages : UNION {[1..n -> DedupMsgs] : n \in 0..MaxMsgs}]

\* the cells a row of the page can hold: texts with and without markup,
\* blanks, numbers written in several ways, dates and other texts
ParseWaters ==
    {BlueLake, GreenLake, <<>>, <<" ">>,
     <<"<","b",">">> \o BlueLake \o <<"<","/","b",">">>}

ParseCounties == {Wasatch, Summit, <<>>}

ParseSpecies == {RainbowTrout, BrownTrout, <<>>}

ParseQuantities == {<<"1",",","2","0","0">>, <<"1","2","0","0">>, <<>>, <<"n","/","a">>}

ParseLengths == {<<"1","0",".","5">>, <<"1","0",".","5","0">>, <<>>, <<"l","o","n","g">>}

ParseDates == {<<"3","/","4","/","2","0","2","6">>, <<"0","3","/","0","4","/","2","0","2","6">>, <<"3","/","5","/","2","0","2","6">>, <<"s","o","o","n">>}

\* rows of five, six and seven cells
ParseRows ==
    {SubSeq(<<w, c, sp, qt, ln, d, <<"x">> >>, 1, n) :
        w \in ParseWaters, c \in ParseCounties, sp \in ParseSpecies,
        qt \in ParseQuantities, ln \in ParseLengths, d \in ParseDates, n \in {5, 6, 7}}

\* two polls: a page of one known row at one time, a page of one row of any
\* kind at the same or a later time
ParseArgs ==
    [fn : {"parseDwrFishStockingHtml"},
     html : {<< <<r1>>, <<r2>> >> : r1 \in {RowA, RowB}, r2 \in ParseRows},
     now : {<<1, 1>>, <<1, 2>>}]

\* rows in one page of several rows
MaxRows == 3

\* the stocking of RowA written in another way
RowA2 ==
    << <<"<","b",">">> \o BlueLake \o <<"<","/","b",">">>, Wasatch, RainbowTrout,
       <<"1","2","0","0">>, <<"1","0",".","5","0">>, <<"0","3","/","0","4","/","2","0","2","6">> >>

\* two rows that differ in where the delimiter of the fingerprint stands
RowPipe1 == << <<"B","l","u","e","|","L","a","k","e">>, Wasatch, RainbowTrout, <<"1",",","2","0","0">>, <<"1","0",".","5">>, <<"3","/","4","/","2","0","2","6">> >>

RowPipe2 == << <<"B","l","u","e">>, <<"L","a","k","e","|","W","a","s","a","t","c","h">>, RainbowTrout, <<"1",",","2","0","0">>, <<"1","0",".","5">>, <<"3","/","4","/","2","0","2","6">> >>

\* the rows a page of several rows is made of: the last one has five cells
PageRows == {RowA, RowA2, RowB, RowPipe1, RowPipe2, SubSeq(RowB, 1, 5)}

PageArgs ==
    [fn : {"parseDwrFishStockingHtml"},
     html : {<<page>> : page \in UNION {[1..n -> PageRows] : n \in 0..MaxRows}},
     now : {<<1>>}]

\* the texts given to normalizeDate
DateInputs ==
    {<<"3","/","4","/","2","0","2","6">>, <<"1","3","/","4","0","/","2","0","2","6">>, <<"0","3","/","0","4","/","2","0","2","6">>, <<"1","2","/","2","5","/","2","0","2","6">>,
     <<"2","0","2","6","-","0","3","-","0","4">>, <<>>, <<"3","/","4","/","2","6">>, <<"3","-","4","-","2","0","2","6">>, <<"a","/","b","/","2","0","2","6">>,
     <<"s","o","o","n">>, <<"x","3","/","4","/","2","0","2","6">>, <<"3","/","4","/","2","0","2","6","1">>, <<"1","2","3","/","4","/","2","0","2","6">>,
     <<"M","a","r","c","h"," ","4",","," ","2","0","2","6">>}

DateArgs == [fn : {"normalizeDate"}, s : DateInputs]

\* blocks of lines in one section of the free-text page
MaxBlocks == 4

Triple1 == <<BlueLake, Wasatch, <<"3","/","4","/","2","0","2","6">>>>

Triple2 == <<GreenLake, Summit, <<"3","/","5","/","2","0","2","6">>>>

Triple3 == <<BlueLake, Wasatch, <<"3","/","5","/","2","0","2","6">>>>

BodyOfWater == << <<"B","o","d","y"," ","o","f"," ","W","a","t","e","r">> >>

\* what a section is made of: line triples, column labels, the heading and
\* other lines
CoBlocks ==
    {Triple1, Triple2, Triple3, BodyOfWater, << <<"T","r","o","u","t"," ","S","t","o","c","k","i","n","g"," ","R","e","p","o","r","t">> >>,
     << <<"U","p","d","a","t","e","d"," ","w","e","e","k","l","y">> >>, << <<"R","e","p","o","r","t"," ","D","a","t","e"," ">> >>}

CoArgs ==
    [fn : {"fetchColoradoEvents"},
     blocks : UNION {[1..n -> CoBlocks] : n \in 0..MaxBlocks}]

(***************************************************************************)
(* GET /events/recent: index.js with getRecentEvents of db.js, and the     *)
(* route of the server with several states (server.js)                     *)
(***************************************************************************)
\* parseInt(s, 10) of any string: blanks, a sign, then the digits up to the
\* first other character
parseIntSigned(s) ==
    LET t == trim(s)
        neg == t # <<>> /\ Head(t) = "-"
        u == IF t # <<>> /\ Head(t) \in {"-", "+"} THEN Tail(t) ELSE t
        ds == DigitPrefix(u)
    IN  IF ds = <<>> THEN NaN
        ELSE [int |-> IF neg THEN 0 - DigitsVal(ds) ELSE DigitsVal(ds), frac |-> <<>>]

\* a parameter of the query string that is present, with its text
Query(s) == [value |-> s]

\* Math.min(parseInt(req.query.limit || "50", 10) || 50, 200); a parameter
\* that is missing is NULL
limitOf(q) ==
    LET n == parseIntSigned(IF q = NULL \/ q.value = <<>> THEN <<"5","0">> ELSE q.value)
        v == IF n = NaN \/ n.int = 0 THEN 50 ELSE n.int
    IN  IF v < 200 THEN v ELSE 200

\* rows in the order Before: row i stands before row j iff Before(rows, i, j)
sorted(rows, Before(_, _, _)) ==
    LET n == Len(rows)
        rank == SubSeq([i \in 1..n |-> Cardinality({j \in 1..n : Before(rows, j, i)})], 1, n)
    IN  [p \in 1..n |-> rows[CHOOSE i \in 1..n : rank[i] = p - 1]]

\* ORDER BY date_stocked DESC, first_seen_at DESC; rows equal in both stand
\* in rowid order
byDateThenSeen(rows, i, j) ==
    \/ rows[i].date_stocked > rows[j].date_stocked
    \/ /\ rows[i].date_stocked = rows[j].date_stocked
       /\ \/ rows[i].first_seen_at > rows[j].first_seen_at
          \/ rows[i].first_seen_at = rows[j].first_seen_at /\ i < j

\* SELECT ... LIMIT ?: a negative LIMIT means no limit in SQLite
getRecentEvents(rows, limit) ==
    LET all == sorted(rows, byDateThenSeen)
    IN  IF limit < 0 \/ limit > Len(all) THEN all ELSE SubSeq(all, 1, limit)

\* .sort((a, b) => String(b.date_stocked).localeCompare(String(a.date_stocked))),
\* a stable sort
byDate(rows, i, j) ==
    \/ rows[i].date_stocked > rows[j].date_stocked
    \/ rows[i].date_stocked = rows[j].date_stocked /\ i < j

\* Array.prototype.slice(0, end): a negative end counts from the end
slice0(a, end) ==
    LET e == IF end < 0 THEN (IF Len(a) + end < 0 THEN 0 ELSE Len(a) + end)
             ELSE IF end > Len(a) THEN Len(a) ELSE end
    IN  SubSeq(a, 1, e)

\* the events of the route of server.js
eventsRecent(events, q) == slice0(sorted(events, byDate), limitOf(q))

\* the most events the store (the page) holds when the route is asked
MaxStored == 250

\* n events on three days, seen one after the other
RecentRows(n) == [k \in 1..n |-> [id |-> k, date_stocked |-> k % 3, first_seen_at |-> k]]

\* the values of the query parameter limit
LimitInputs ==
    {NULL} \cup {Query(s) : s \in
        {<<>>, <<"0">>, <<"-","1">>, <<"-","7">>, <<"a","b","c">>, <<"1","0">>, <<"2","0","0">>, <<"2","0","1">>, <<"5","0","0">>, <<" ","1","2","a","b","c">>, <<"-","0">>}}

RecentArgs ==
    [fn : {"getRecentEvents", "eventsRecent"},
     limit : LimitInputs,
     stored : {0, 3, 200, 201, MaxStored}]

\* the events given to formatNotification: those of one row whose quantity
\* and length are written in several ways, zero among them
FormatQuantities == {<<"1",",","2","0","0">>, <<"9","5","0">>, <<"1",",","2","3","4",",","5","6","7">>, <<"0">>, <<>>, <<"n","/","a">>}

FormatLengths == {<<"1","0",".","5">>, <<"8">>, <<"0">>, <<>>, <<"l","o","n","g">>}

FormatArgs ==
    [fn : {"formatNotification"},
     event : UNION {Range(parseRow(<<w, Wasatch, RainbowTrout, qt, ln,
                                    <<"3","/","4","/","2","0","2","6">>>>, 1)) :
                       w \in {BlueLake, GreenLake}, qt \in FormatQuantities,
                       ln \in FormatLengths}]

InitFn ==
    /\ InitStore
    /\ arg \in MatchArgs \cup DedupArgs \cup ParseArgs \cup PageArgs \cup DateArgs \cup CoArgs
               \cup FormatArgs
    /\ res = <<>>

applyMatchesSubscription ==
    /\ arg.fn = "matchesSubscription"
    /\ res = <<>>
    /\ res' = <<matchesSubscription(arg.event, arg.sub)>>
    /\ UNCHANGED <<stock_events, subscriptions, writer, now, started, subscribed, cyc,
                   hist, arg>>

applyDedupMessages ==
    /\ arg.fn = "dedupMessages"
    /\ res = <<>>
    /\ res' = <<dedupMessages(arg.messages)>>
    /\ UNCHANGED <<stock_events, subscriptions, writer, now, started, subscribed, cyc,
                   hist, arg>>

\* the next page of arg is parsed, at its time
applyParseDwrFishStockingHtml ==
    /\ arg.fn = "parseDwrFishStockingHtml"
    /\ Len(res) < Len(arg.html)
    /\ LET k == Len(res) + 1
       IN  res' = Append(res, parseDwrFishStockingHtml(arg.html[k], arg.now[k]))
    /\ UNCHANGED <<stock_events, subscriptions, writer, now, started, subscribed, cyc,
                   hist, arg>>

applyNormalizeDate ==
    /\ arg.fn = "normalizeDate"
    /\ res = <<>>
    /\ res' = <<normalizeDate(arg.s)>>
    /\ UNCHANGED <<stock_events, subscriptions, writer, now, started, subscribed, cyc,
                   hist, arg>>

\* the section is polled, a first and then a second time
applyFetchColoradoEvents ==
    /\ arg.fn = "fetchColoradoEvents"
    /\ Len(res) < 2
    /\ res' = Append(res, fetchColoradoEvents(Concat(arg.blocks), Len(res) + 1))
    /\ UNCHANGED <<stock_events, subscriptions, writer, now, started, subscribed, cyc,
                   hist, arg>>

applyFormatNotification ==
    /\ arg.fn = "formatNotification"
    /\ res = <<>>
    /\ res' = <<formatNotification(arg.event)>>
    /\ UNCHANGED <<stock_events, subscriptions, writer, now, started, subscribed, cyc,
                   hist, arg>>

\* GET /events/recent of index.js
applyGetRecentEvents ==
    /\ arg.fn = "getRecentEvents"
    /\ res = <<>>
    /\ res' = <<getRecentEvents(RecentRows(arg.stored), limitOf(arg.limit))>>
    /\ UNCHANGED <<stock_events, subscriptions, writer, now, started, subscribed, cyc,
                   hist, arg>>

\* GET /events/recent of server.js
applyEventsRecent ==
    /\ arg.fn = "eventsRecent"
    /\ res = <<>>
    /\ res' = <<eventsRecent(RecentRows(arg.stored), arg.limit)>>
    /\ UNCHANGED <<stock_events, subscriptions, writer, now, started, subscribed, cyc,
                   hist, arg>>

NextFn ==
    \/ applyMatchesSubscription
    \/ applyDedupMessages
    \/ applyParseDwrFishStockingHtml
    \/ applyNormalizeDate
    \/ applyFetchColoradoEvents
    \/ applyFormatNotification

SpecFn == InitFn /\ [][NextFn]_vars

(***************************************************************************)
(* GET /events/recent asked with a limit of every kind, of a store (a      *)
(* page) of up to MaxStored events                                         *)
(***************************************************************************)
InitRecent ==
    /\ InitStore
    /\ arg \in RecentArgs
    /\ res = <<>>

NextRecent ==
    \/ applyGetRecentEvents
    \/ applyEventsRecent

SpecRecent == InitRecent /\ [][NextRecent]_vars

(***************************************************************************)
(* Two loops run turn by turn: the walk over the lines of the free-text    *)
(* page (coParser.js) and fetchJsonWithRetry of the app (api.ts)           *)
(***************************************************************************)
\* a line that holds a date and stands alone
StrayDate == << <<"3","/","6","/","2","0","2","6">> >>

\* a line that holds a date among other words
DatedNote == << <<"b","y"," ","3","/","6","/","2","0","2","6">> >>

WalkBlocks == CoBlocks \cup {StrayDate, DatedNote}

WalkArgs == [fn : {"walk"}, blocks : UNION {[1..n -> WalkBlocks] : n \in 0..MaxBlocks}]

\* const lines: the local the loop walks over, computed once before it
walkLines == res.lines

\* attempts a caller passes, above the default of 6
MaxAttempts == 3

\* `attempts = 6`: the default stands in for an argument left out
attemptsOf(a) == IF a = NULL THEN 6 ELSE a.n

Attempts(n) == [n |-> n]

UNDEFINED == [undefined |-> TRUE]

\* an object of a JSON body; a key that is not there is "undefined"
Json(ok, error, data) == [ok |-> ok, error |-> error, data |-> data]

\* what one request can end with: fetch rejects, or a response with its
\* status and its body, parsed or not parsable
Responses ==
    {[rejected |-> "Network request failed"],
     [status |-> 200, body |-> Json("undefined", "undefined", "events")],
     [status |-> 200, body |-> [text |-> "<html>"]],
     [status |-> 200, body |-> Json("false", "boom", "undefined")],
     [status |-> 500, body |-> Json("undefined", "busy", "undefined")],
     [status |-> 503, body |-> [text |-> "<html>"]]}

RetryArgs ==
    [fn : {"fetchJsonWithRetry"},
     attempts : {NULL} \cup {Attempts(n) : n \in 0..MaxAttempts}]

\* `HTTP ${res.status}`
httpMessage(status) ==
    CASE status = 200 -> "HTTP 200"
      [] status = 500 -> "HTTP 500"
      [] status = 503 -> "HTTP 503"

\* one turn of the try block on the response r: [throws |-> the error], or
\* [returns |-> the value]
tryRequest(r) ==
    IF "rejected" \in DOMAIN r THEN [throws |-> [message |-> r.rejected]]
    ELSE LET resOk == r.status >= 200 /\ r.status <= 299
             json == IF "text" \in DOMAIN r.body THEN Json("undefined", "undefined", "undefined")
                     ELSE r.body
         IN  IF ~resOk \/ json.ok = "false"
             THEN [throws |-> [message |-> IF json.error # "undefined" THEN json.error
                                           ELSE httpMessage(r.status)]]
             ELSE [returns |-> json]

InitLoop ==
    /\ InitStore
    /\ arg \in WalkArgs \cup RetryArgs
    /\ res = IF arg.fn = "walk"
             THEN [pc |-> "loop", lines |-> lines(Concat(arg.blocks)), i |-> 1,
                   events |-> <<>>, accepted |-> <<>>, result |-> <<>>]
             ELSE [pc |-> "loop", i |-> 0, requests |-> <<>>, lastErr |-> UNDEFINED,
                   slept |-> <<>>, result |-> UNDEFINED]

\* the three lines at i are a triple: the event is pushed and i += 2, i++
walkAccept ==
    /\ arg.fn = "walk"
    /\ res.pc = "loop"
    /\ res.i <= Len(walkLines) - 2
    /\ tripleAt(walkLines, res.i)
    /\ res' = [res EXCEPT !.events = Append(@, coEvent(clean(walkLines[res.i]),
                                                      clean(walkLines[res.i + 1]),
                                                      clean(walkLines[res.i + 2]), 1)),
                          !.accepted = Append(@, res.i),
                          !.i = @ + 3]
    /\ UNCHANGED <<stock_events, subscriptions, writer, now, started, subscribed, cyc,
                   hist, arg>>

\* one of the tests says continue: i++
walkReject ==
    /\ arg.fn = "walk"
    /\ res.pc = "loop"
    /\ res.i <= Len(walkLines) - 2
    /\ ~tripleAt(walkLines, res.i)
    /\ res' = [res EXCEPT !.i = @ + 1]
    /\ UNCHANGED <<stock_events, subscriptions, writer, now, started, subscribed, cyc,
                   hist, arg>>

\* i < lines.length - 2 is false: the events are deduplicated and returned
walkReturn ==
    /\ arg.fn = "walk"
    /\ res.pc = "loop"
    /\ res.i > Len(walkLines) - 2
    /\ res' = [res EXCEPT !.pc = "returned", !.result = dedupById(res.events, {})]
    /\ UNCHANGED <<stock_events, subscriptions, writer, now, started, subscribed, cyc,
                   hist, arg>>

\* the error of the first failed attempt is kept
retryFailed_KeepFirst ==
    /\ arg.fn = "fetchJsonWithRetry"
    /\ res.pc = "loop"
    /\ res.i < attemptsOf(arg.attempts)
    /\ \E r \in Responses :
          /\ "throws" \in DOMAIN tryRequest(r)
          /\ res' = [res EXCEPT !.pc = "sleep",
                                !.requests = Append(@, r),
                                !.lastErr = IF @ = UNDEFINED THEN tryRequest(r).throws
                                            ELSE @]
    /\ UNCHANGED <<stock_events, subscriptions, writer, now, started, subscribed, cyc,
                   hist, arg>>

\* a turn of the loop whose request succeeds: return json
retryOk ==
    /\ arg.fn = "fetchJsonWithRetry"
    /\ res.pc = "loop"
    /\ res.i < attemptsOf(arg.attempts)
    /\ \E r \in Responses :
          /\ "returns" \in DOMAIN tryRequest(r)
          /\ res' = [res EXCEPT !.pc = "returned",
                                !.requests = Append(@, r),
                                !.result = tryRequest(r).returns]
    /\ UNCHANGED <<stock_events, subscriptions, writer, now, started, subscribed, cyc,
                   hist, arg>>

\* a turn of the loop whose request fails: catch (e) { lastErr = e; await sleep }
retryFailed ==
    /\ arg.fn = "fetchJsonWithRetry"
    /\ res.pc = "loop"
    /\ res.i < attemptsOf(arg.attempts)
    /\ \E r \in Responses :
          /\ "throws" \in DOMAIN tryRequest(r)
          /\ res' = [res EXCEPT !.pc = "sleep",
                                !.requests = Append(@, r),
                                !.lastErr = tryRequest(r).throws]
    /\ UNCHANGED <<stock_events, subscriptions, writer, now, started, subscribed, cyc,
                   hist, arg>>

\* the backoff sleep(Math.min(8000, 500 * Math.pow(2, i))) is over: i++
retrySlept ==
    /\ arg.fn = "fetchJsonWithRetry"
    /\ res.pc = "sleep"
    /\ res' = [res EXCEPT !.pc = "loop",
                          !.slept = Append(@, IF 500 * (2 ^ res.i) < 8000
                                              THEN 500 * (2 ^ res.i) ELSE 8000),
                          !.i = @ + 1]
    /\ UNCHANGED <<stock_events, subscriptions, writer, now, started, subscribed, cyc,
                   hist, arg>>

\* i < attempts is false: throw lastErr
retryThrow ==
    /\ arg.fn = "fetchJsonWithRetry"
    /\ res.pc = "loop"
    /\ res.i >= attemptsOf(arg.attempts)
    /\ res' = [res EXCEPT !.pc = "thrown", !.result = res.lastErr]
    /\ UNCHANGED <<stock_events, subscriptions, writer, now, started, subscribed, cyc,
                   hist, arg>>

NextLoop ==
    \/ walkAccept
    \/ walkReject
    \/ walkReturn
    \/ retryOk
    \/ retryFailed
    \/ retrySlept
    \/ retryThrow

\* a turn of a loop that can be taken is taken: the tests of the walk are
\* synchronous code, and a request and a timer of the retry come to an end
SpecLoop == InitLoop /\ [][NextLoop]_vars /\ WF_vars(NextLoop)

(***************************************************************************)
(* What the properties below speak about                                   *)
(***************************************************************************)
\* the cycles in flight whose position is one of pcs, then the ended ones
CyclesAt(pcs) ==
    SelectSeq([k \in 1..Len(ProcSeq) |-> cyc[ProcSeq[k]]], LAMBDA c : c.pc \in pcs)

\* the ended cycles that got past their transaction
Ended == SelectSeq(hist, LAMBDA h : h.at \in {"match", "push"})

\* the cycles whose transaction has committed
Committed == CyclesAt({"select", "match", "push"}) \o Ended

\* the cycles whose insertNewEvents has returned
Inserted == CyclesAt({"match", "push"}) \o Ended

\* the cycles that went through their match
Matched == CyclesAt({"push"}) \o Ended

\* the event ids the messages carry
eventIdsOf(msgs) == {msgs[k].data.eventId : k \in 1..Len(msgs)}

\* the events of a batch that the rows do not hold, each id once
newEventsOf(events, rows) ==
    dedupById(SelectSeq(events, LAMBDA e : e.id \notin idsOf(rows)), {})

(***************************************************************************)
(* C1: an event ingested in two separate insert calls is counted once in   *)
(* the sum of their insertedCount, and the store holds one record per id:  *)
(* the insertedCount of all calls that committed add up to the number of   *)
(* distinct ids they were given, which is the number of rows.              *)
(***************************************************************************)
C1_DedupAcrossCalls ==
    /\ \A a, b \in 1..Len(stock_events) :
          stock_events[a].id = stock_events[b].id => a = b
    /\ LET given == UNION {idsOf(Committed[k].events) : k \in 1..Len(Committed)}
       IN  /\ SumSeq([k \in 1..Len(Committed) |-> Committed[k].insertedCount])
                 = Cardinality(given)
           /\ idsOf(stock_events) = given

\* two calls that committed were given the same event
C1_Witness ==
    \E a, b \in 1..Len(Committed) :
        /\ a # b
        /\ idsOf(Committed[a].events) \cap idsOf(Committed[b].events) # {}

(***************************************************************************)
(* C3: newRecords of an insert call are the records this call inserted:    *)
(* insertedCount many, each an event of the batch whose id the store did   *)
(* not hold before the call.                                               *)
(***************************************************************************)
C3_NewRecordsAreInserted ==
    \A k \in 1..Len(Inserted) :
        /\ Len(Inserted[k].newOnes) = Inserted[k].insertedCount
        /\ idsOf(Inserted[k].newOnes) = idsOf(Inserted[k].written)

(***************************************************************************)
(* C4: when the loop of the transaction is over, the count is the number   *)
(* of distinct ids of the batch that the store did not hold, and all of    *)
(* them were written: a known id neither fails nor stops the loop.         *)
(***************************************************************************)
C4_InsertedCount ==
    /\ \A p \in Procs :
          (cyc[p].pc = "tx" /\ cyc[p].i > Len(cyc[p].events)) =>
              /\ cyc[p].inserted
                    = Cardinality(idsOf(cyc[p].events) \ idsOf(stock_events))
              /\ cyc[p].written = newEventsOf(cyc[p].events, stock_events)
    /\ \A k \in 1..Len(Committed) :
          Committed[k].insertedCount = Len(Committed[k].written)

\* a batch of two events, the first known to the store and the second new
C4_Witness ==
    \E p \in Procs :
        /\ cyc[p].pc = "tx" /\ cyc[p].i > Len(cyc[p].events)
        /\ Len(cyc[p].events) = 2
        /\ cyc[p].events[1].id \in idsOf(stock_events)
        /\ cyc[p].events[2].id \notin idsOf(stock_events)
        /\ cyc[p].inserted = 1

(***************************************************************************)
(* C5: the ingest of a batch is atomic for the other cycles and readers:   *)
(* the committed rows, which are all they read, change only in the step    *)
(* that ends a transaction, and that step adds all new events of the batch *)
(* at once.                                                                *)
(***************************************************************************)
C5_BatchAtomic ==
    [][stock_events' # stock_events =>
          \E p \in Procs :
              /\ cyc[p].pc = "tx"
              /\ cyc'[p].pc = "select"
              /\ stock_events' = stock_events \o newEventsOf(cyc[p].events, stock_events)]_vars

\* a transaction has committed two new events while the other cycle was
\* between its fetch and its match, reading the store
C5_Witness ==
    \E p, q \in Procs :
        /\ p # q
        /\ cyc[p].pc = "select"
        /\ Len(cyc[p].written) = 2
        /\ idsOf(cyc[p].written) \subseteq idsOf(stock_events)
        /\ cyc[q].pc \in {"tx", "select", "match"}

(***************************************************************************)
(* C2: two cycles that run at the same time and both extracted an event    *)
(* never both report it as new: it is not counted by both, it is not in    *)
(* the newRecords of both, and not both build messages for it.             *)
(***************************************************************************)
C2_NeverBothNew ==
    \A p, q \in Procs :
        (p # q /\ cyc[p].pc \in {"match", "push"} /\ cyc[q].pc \in {"match", "push"}) =>
            \A id \in idsOf(cyc[p].events) \cap idsOf(cyc[q].events) :
                /\ ~(id \in idsOf(cyc[p].written) /\ id \in idsOf(cyc[q].written))
                /\ ~(id \in idsOf(cyc[p].newOnes) /\ id \in idsOf(cyc[q].newOnes))
                /\ ~(id \in eventIdsOf(cyc[p].finalMsgs)
                     /\ id \in eventIdsOf(cyc[q].finalMsgs))

(***************************************************************************)
(* C7: the messages of a cycle of runPollOnce are, one to one, the pairs   *)
(* of an event the cycle inserted and a stored subscription with a token   *)
(* that matches it; the message goes to the token and carries the id.      *)
(***************************************************************************)
C7_MessagesAreNewMatches ==
    \A k \in 1..Len(Matched) :
        LET c == Matched[k]
            pairs == {<<c.subs[s].expo_push_token, c.written[e].id>> :
                        <<e, s>> \in {x \in (1..Len(c.written)) \X (1..Len(c.subs)) :
                            /\ c.subs[x[2]].expo_push_token # ""
                            /\ matchesSubscription(c.written[x[1]], c.subs[x[2]])}}
        IN  c.proc \in HttpProcs =>
                /\ {dedupKey(c.finalMsgs[m]) : m \in 1..Len(c.finalMsgs)} = pairs
                /\ Len(c.finalMsgs) = Cardinality(pairs)

(***************************************************************************)
(* C8: a cycle builds messages only for events that were new in it: no     *)
(* message for an event the store held before, and no message and no push  *)
(* call in a cycle that inserted nothing.                                  *)
(***************************************************************************)
C8_OnlyNewEventsNotified ==
    \A k \in 1..Len(Matched) :
        LET c == Matched[k]
        IN  /\ eventIdsOf(c.finalMsgs) \subseteq idsOf(c.written)
            /\ c.insertedCount = 0 => (c.finalMsgs = <<>> /\ c.calls = <<>>)

(***************************************************************************)
(* C10: the deduplicated messages of a cycle go to the transport in one    *)
(* call; when the transport answers with a failure the cycle ends with an  *)
(* error and no summary (nothing counted as sent), after that one call.    *)
(***************************************************************************)
C10_SingleCallHardFailure ==
    /\ \A k \in 1..Len(Matched) :
          LET c == Matched[k]
          IN  /\ Len(c.calls) <= 1
              /\ c.calls # <<>> => c.calls[1] = c.finalMsgs
              /\ (c.proc \in HttpProcs /\ c.finalMsgs # <<>>) => c.calls = <<c.finalMsgs>>
    /\ \A k \in 1..Len(hist) :
          hist[k].outcome = "error" => hist[k].summary = NULL

\* a cycle handed two messages to the transport, which failed
C10_Witness ==
    \E k \in 1..Len(hist) :
        /\ hist[k].outcome = "error"
        /\ Len(hist[k].calls) = 1
        /\ Len(hist[k].calls[1]) = 2

(***************************************************************************)
(* C6: matches(event, subscription) is the conjunction, over county,       *)
(* species and water, of: the filter is empty, or it holds a value equal   *)
(* to the event's once both are upper-cased and trimmed.  An empty county  *)
(* filter matches any county, [WA] does not match SU, and a filter value   *)
(* that is only a part of the event's value does not match.                *)
(***************************************************************************)
normalized(s) == trim(toUpperCase(s))

dimensionMatches(filter, value) ==
    filter = <<>> \/ \E k \in 1..Len(filter) : normalized(filter[k]) = normalized(value)

C6_MatchesIffAllDimensions ==
    (arg.fn = "matchesSubscription" /\ res # <<>>) =>
        /\ res[1] = (/\ dimensionMatches(arg.sub.counties, arg.event.county)
                     /\ dimensionMatches(arg.sub.species, arg.event.species)
                     /\ dimensionMatches(arg.sub.waters, arg.event.water_name))
        /\ (arg.sub.counties = <<>> /\ arg.sub.species = <<>> /\ arg.sub.waters = <<>>)
              => res[1] = TRUE
        /\ (arg.sub.counties = <<WA>> /\ arg.event.county = SU) => res[1] = FALSE
        /\ (arg.sub.counties = << <<"W">> >> /\ arg.event.county = WA) => res[1] = FALSE

\* three non-empty filters written in another case and with blanks, matched
C6_Witness ==
    /\ arg.fn = "matchesSubscription"
    /\ res = <<TRUE>>
    /\ arg.event.county = <<"W","a">>
    /\ arg.sub.counties = << <<" ","w","a"," ">> >>
    /\ arg.sub.species # <<>>
    /\ arg.sub.waters = << <<"G","R">>, <<"B","L"," ">> >>

(***************************************************************************)
(* C9: the deduplicated batch holds no two messages with the same          *)
(* (destination token, event id), and every pair that had a message keeps  *)
(* exactly one, a message of the input with that pair.                     *)
(***************************************************************************)
C9_OneMessagePerPair ==
    (arg.fn = "dedupMessages" /\ res # <<>>) =>
        LET in == arg.messages
            out == res[1]
            pairOf(m) == <<m.to, m.data.eventId>>
        IN  /\ \A a, b \in 1..Len(out) : pairOf(out[a]) = pairOf(out[b]) => a = b
            /\ {pairOf(out[a]) : a \in 1..Len(out)} = {pairOf(in[a]) : a \in 1..Len(in)}
            /\ \A a \in 1..Len(out) : \E b \in 1..Len(in) : out[a] = in[b]

\* three messages, two of them for the same pair with different bodies,
\* came out as two
C9_Witness ==
    /\ arg.fn = "dedupMessages"
    /\ res # <<>>
    /\ Len(arg.messages) = 3
    /\ arg.messages[1].to = arg.messages[3].to
    /\ arg.messages[1].data = arg.messages[3].data
    /\ arg.messages[1].body # arg.messages[3].body
    /\ Len(res[1]) = 2

(***************************************************************************)
(* C11: runPollOnce ends in one of two ways: it returns a summary in which *)
(* parsed, inserted, subscriptions, matchedMessages, pushed and the        *)
(* transport response are all set, to the values of the cycle, or it       *)
(* rejects with an error and returns no summary at all; a cycle whose      *)
(* fetch, transaction or push failed is of the second kind.                *)
(***************************************************************************)
SummaryFields ==
    {"parsed", "inserted", "subscriptions", "matchedMessages", "pushed", "expoResponse"}

C11_SummaryOrError ==
    \A k \in 1..Len(hist) :
        LET h == hist[k]
        IN  h.proc \in HttpProcs =>
                \/ /\ h.outcome = "summary"
                   /\ h.at \in {"match", "push"}
                   /\ DOMAIN h.summary = SummaryFields
                   /\ h.summary.parsed = Len(h.events)
                   /\ h.summary.inserted = h.insertedCount
                   /\ h.summary.subscriptions = Len(h.subs)
                   /\ h.summary.matchedMessages = Len(h.finalMsgs)
                   /\ h.summary.pushed = (IF h.calls = <<>> THEN 0 ELSE Len(h.finalMsgs))
                   /\ h.summary.expoResponse = (IF h.calls = <<>> THEN NULL ELSE ExpoJson)
                \/ /\ h.outcome = "error"
                   /\ h.at \in {"fetch", "tx", "push"}
                   /\ h.summary = NULL

\* one cycle of runPollOnce rejected after its transaction failed, another
\* returned a summary after a push
C11_Witness ==
    \E j, k \in 1..Len(hist) :
        /\ hist[j].proc \in HttpProcs /\ hist[j].outcome = "error" /\ hist[j].at = "tx"
        /\ hist[j].events # <<>>
        /\ hist[k].proc \in HttpProcs /\ hist[k].outcome = "summary"
        /\ hist[k].summary.pushed = 1

(***************************************************************************)
(* C12: a cycle whose fetch fails ends there, with an error and nothing    *)
(* done: no event was extracted, the store and the subscriptions are as    *)
(* they were and were not read, and the transport was not called.          *)
(***************************************************************************)
C12_FetchFailureStopsCycle ==
    [][\A p \in Procs :
          (cyc[p].pc = "fetch" /\ cyc'[p].pc = "idle") =>
              /\ stock_events' = stock_events
              /\ subscriptions' = subscriptions
              /\ writer' = writer
              /\ Len(hist') = Len(hist) + 1
              /\ LET h == hist'[Len(hist')]
                 IN  /\ h.proc = p /\ h.at = "fetch"
                     /\ h.outcome = "error" /\ h.summary = NULL
                     /\ h.events = <<>> /\ h.written = <<>> /\ h.insertedCount = 0
                     /\ h.newOnes = <<>> /\ h.subs = <<>> /\ h.checked = <<>>
                     /\ h.finalMsgs = <<>> /\ h.calls = <<>>]_vars

\* the fetch of runPollOnce failed while the store held events and
\* subscriptions
C12_Witness ==
    \E k \in 1..Len(hist) :
        /\ hist[k].proc \in HttpProcs /\ hist[k].at = "fetch"
        /\ stock_events # <<>> /\ subscriptions # <<>>

(***************************************************************************)
(* C13: a cycle of runPollOnce that finds no subscription, or no pair of   *)
(* an event it inserted and a subscription with a token that matches it,   *)
(* returns a summary with matchedMessages = 0 and pushed = 0 and does not  *)
(* call the transport.                                                     *)
(***************************************************************************)
NoNewMatch(c) ==
    \/ c.subs = <<>>
    \/ \A e \in 1..Len(c.written), x \in 1..Len(c.subs) :
          ~(c.subs[x].expo_push_token # "" /\ matchesSubscription(c.written[e], c.subs[x]))

C13_NoMatchNoPush ==
    /\ \A p \in HttpProcs : cyc[p].pc = "push" => ~NoNewMatch(cyc[p])
    /\ \A k \in 1..Len(Ended) :
          LET h == Ended[k]
          IN  (h.proc \in HttpProcs /\ NoNewMatch(h)) =>
                  /\ h.outcome = "summary"
                  /\ h.summary.matchedMessages = 0
                  /\ h.summary.pushed = 0
                  /\ h.calls = <<>>

(***************************************************************************)
(* C14: two extracted rows with the same water, county, species, quantity, *)
(* length and date have the same id, whenever they were seen; two that     *)
(* differ in exactly one of the six have different ids.  The same for the  *)
(* triples of the free-text page, polled twice.                            *)
(***************************************************************************)
sixFields(e) ==
    <<e.water_name, e.county, e.species, e.quantity, e.avg_length, e.date_stocked>>

differing(e, f) == {k \in 1..6 : sixFields(e)[k] # sixFields(f)[k]}

C14_IdFromSixFields ==
    /\ (arg.fn = "parseDwrFishStockingHtml" /\ Len(res) = 2
            /\ res[1] # <<>> /\ res[2] # <<>>) =>
          LET e == res[1][1]
              f == res[2][1]
          IN  /\ differing(e, f) = {} => e.id = f.id
              /\ Cardinality(differing(e, f)) = 1 => e.id # f.id
    /\ (arg.fn = "fetchColoradoEvents" /\ Len(res) = 2) =>
          /\ Len(res[1]) = Len(res[2])
          /\ \A k \in 1..Len(res[1]) :
                /\ sixFields(res[1][k]) = sixFields(res[2][k])
                /\ res[1][k].id = res[2][k].id
          /\ \A j, k \in 1..Len(res[1]) :
                Cardinality(differing(res[1][j], res[1][k])) = 1 =>
                    res[1][j].id # res[1][k].id

\* the same stocking written in two ways (markup, 1200 for 1,200, 10.50 for
\* 10.5, 03/04 for 3/4) and seen at two times got one id
C14_Witness ==
    /\ arg.fn = "parseDwrFishStockingHtml"
    /\ Len(res) = 2
    /\ res[1] # <<>> /\ res[2] # <<>>
    /\ \A k \in 1..6 : k # 2 /\ k # 3 => arg.html[1][1][k] # arg.html[2][1][k]
    /\ res[1][1].first_seen_at # res[2][1].first_seen_at
    /\ res[1][1].id = res[2][1].id

(***************************************************************************)
(* C15: a table row becomes an event iff it has six cells or more and the  *)
(* texts of its cells 0, 1, 2 (water, county, species) and the normalized  *)
(* date of cell 5 are non-empty.  Five cells: dropped.  No water name:     *)
(* dropped.  A quantity or length without a number: the row stays and the  *)
(* field is null.                                                          *)
(***************************************************************************)
hasDigit(cell) == \E k \in 1..Len(cell) : IsDigit(cell[k])

C15_RowBecomesEvent ==
    arg.fn = "parseDwrFishStockingHtml" =>
        \A k \in {n \in 1..Len(res) : Len(arg.html[n]) = 1} :
            LET row == arg.html[k][1]
                events == res[k]
                mandatory == /\ Len(row) >= 6
                             /\ stripTags(row[1]) # <<>>
                             /\ stripTags(row[2]) # <<>>
                             /\ stripTags(row[3]) # <<>>
                             /\ normalizeDate(stripTags(row[6])) # <<>>
            IN  /\ Len(events) = (IF mandatory THEN 1 ELSE 0)
                /\ Len(row) = 5 => events = <<>>
                /\ (Len(row) >= 1 /\ stripTags(row[1]) = <<>>) => events = <<>>
                /\ events # <<>> =>
                      /\ events[1].water_name = stripTags(row[1])
                      /\ events[1].county = stripTags(row[2])
                      /\ events[1].species = stripTags(row[3])
                      /\ (events[1].quantity = NULL) = ~hasDigit(row[4])
                      /\ (events[1].avg_length = NULL) = ~hasDigit(row[5])

\* a row of exactly six cells without a usable quantity and without a length
\* became an event
C15_Witness ==
    /\ arg.fn = "parseDwrFishStockingHtml"
    /\ Len(res) = 2
    /\ Len(arg.html[2][1]) = 6
    /\ arg.html[2][1][4] # <<>> /\ ~hasDigit(arg.html[2][1][4])
    /\ arg.html[2][1][5] = <<>>
    /\ Len(res[2]) = 1
    /\ res[2][1].quantity = NULL /\ res[2][1].avg_length = NULL

(***************************************************************************)
(* C16: with other lines (column labels, the heading, notes) between the   *)
(* line triples of a section, the walk emits the triples, each once, in    *)
(* the order of the input and each with its water, region and date; the    *)
(* lines Blue Lake, Wasatch, 3/4/2026, Body of Water, Green Lake, Summit,  *)
(* 3/5/2026 give two events, of 2026-03-04 and 2026-03-05.                 *)
(***************************************************************************)
\* the blocks that are triples, without the repetitions of one before
RECURSIVE triplesOf(_, _)
triplesOf(blocks, seen) ==
    IF blocks = <<>> THEN <<>>
    ELSE IF Len(Head(blocks)) # 3 \/ Head(blocks) \in seen
         THEN triplesOf(Tail(blocks), seen)
         ELSE <<Head(blocks)>> \o triplesOf(Tail(blocks), seen \cup {Head(blocks)})

Date0304 == <<"2","0","2","6","-","0","3","-","0","4">>

Date0305 == <<"2","0","2","6","-","0","3","-","0","5">>

C16_TriplesRecovered ==
    arg.fn = "fetchColoradoEvents" =>
        \A k \in 1..Len(res) :
            LET want == triplesOf(arg.blocks, {})
                events == res[k]
            IN  /\ Len(events) = Len(want)
                /\ \A j \in 1..Len(events) :
                      /\ events[j].water_name = want[j][1]
                      /\ events[j].county = toUpperCase(want[j][2])
                      /\ events[j].date_stocked =
                            (IF want[j][3] = Triple1[3] THEN Date0304 ELSE Date0305)
                /\ arg.blocks = <<Triple1, BodyOfWater, Triple2>> =>
                      /\ Len(events) = 2
                      /\ events[1].date_stocked = Date0304
                      /\ events[2].date_stocked = Date0305

\* the seven lines of the example gave the two events
C16_Witness ==
    /\ arg.fn = "fetchColoradoEvents"
    /\ Concat(arg.blocks) = Triple1 \o BodyOfWater \o Triple2
    /\ Len(res) = 2
    /\ Len(res[1]) = 2
    /\ res[1][2].water_name = GreenLake

(***************************************************************************)
(* C17: normalizeDate maps a text of the shape M[M]/D[D]/YYYY to           *)
(* YYYY-MM-DD, month and day padded to two digits, without looking at the  *)
(* calendar (3/4/2026 gives 2026-03-04, 13/40/2026 gives 2026-13-40), and  *)
(* any other text to the empty string; a row with such a text as its date  *)
(* is dropped, and every event has a date_stocked of the form YYYY-MM-DD.  *)
(***************************************************************************)
IsDateShape(s) ==
    \E a, b \in {1, 2} :
        /\ Len(s) = a + b + 6
        /\ \A k \in 1..Len(s) :
              IF k \in {a + 1, a + b + 2} THEN s[k] = "/" ELSE IsDigit(s[k])

\* YYYY-MM-DD of a text of that shape
Reformatted(s) ==
    LET a == SetMin({k \in 1..Len(s) : s[k] = "/"}) - 1
        b == Len(s) - a - 6
    IN  SubSeq(s, a + b + 3, Len(s)) \o <<"-">> \o padStart2(SubSeq(s, 1, a))
        \o <<"-">> \o padStart2(SubSeq(s, a + 2, a + b + 1))

IsYMD(d) ==
    /\ Len(d) = 10
    /\ \A k \in 1..10 : IF k \in {5, 8} THEN d[k] = "-" ELSE IsDigit(d[k])

C17_DateShapeOnly ==
    /\ (arg.fn = "normalizeDate" /\ res # <<>>) =>
          /\ res[1] = (IF IsDateShape(arg.s) THEN Reformatted(arg.s) ELSE <<>>)
          /\ arg.s = <<"3","/","4","/","2","0","2","6">> => res[1] = Date0304
          /\ arg.s = <<"1","3","/","4","0","/","2","0","2","6">>
                => res[1] = <<"2","0","2","6","-","1","3","-","4","0">>
    /\ arg.fn = "parseDwrFishStockingHtml" =>
          \A k \in 1..Len(res) :
              /\ \A j \in 1..Len(res[k]) : IsYMD(res[k][j].date_stocked)
              /\ (/\ Len(arg.html[k]) = 1
                  /\ Len(arg.html[k][1]) >= 6
                  /\ ~IsDateShape(stripTags(arg.html[k][1][6])))
                    => res[k] = <<>>

(***************************************************************************)
(* C18: end to end.  The store is empty, the page holds the one row Blue   *)
(* Lake, Wasatch, Rainbow Trout, 1,200, 10.5, 3/4/2026 and the only        *)
(* subscription is TOK1 with counties [WASATCH] and no other filter; no    *)
(* other cycle writes.  runPollOnce returns inserted = 1 and               *)
(* matchedMessages = 1, and the body of the message reads                  *)
(* Blue Lake (WASATCH) - 1,200 fish * 10.5" avg - 2026-03-04, with a long  *)
(* dash and a bullet.                                                      *)
(***************************************************************************)
Sub18 ==
    [expo_push_token |-> "TOK1", counties |-> << toUpperCase(Wasatch) >>,
     species |-> <<>>, waters |-> <<>>]

Body18 ==
    BlueLake \o <<" ", "(">> \o toUpperCase(Wasatch) \o <<")", " ", EMDASH, " ">>
    \o <<"1",",","2","0","0"," ","f","i","s","h">> \o <<" ", BULLET, " ">> \o <<"1","0",".","5","\""," ","a","v","g">>
    \o <<" ", EMDASH, " ">> \o Date0304

C18_EndToEnd ==
    \A k \in 1..Len(Ended) :
        LET h == Ended[k]
        IN  (/\ h.proc \in HttpProcs
             /\ h.outcome = "summary"
             /\ Len(h.events) = 1
             /\ h.events = parseDwrFishStockingHtml(<<RowA>>, h.events[1].first_seen_at)
             /\ h.written = h.events
             /\ stock_events = h.written
             /\ h.subs = <<Sub18>>) =>
                /\ h.summary.inserted = 1
                /\ h.summary.matchedMessages = 1
                /\ Len(h.finalMsgs) = 1
                /\ h.finalMsgs[1].to = "TOK1"
                /\ h.finalMsgs[1].body = Body18

(***************************************************************************)
(* C19: the store holds one subscription per token that was submitted, and *)
(* its counties, species and waters are those of the last submission of    *)
(* the token, a set that was left out or empty there being empty: nothing  *)
(* of an earlier submission remains.                                       *)
(***************************************************************************)
\* the submissions POST /subscribe passed on to the store
accepted == SelectSeq(subscribed, LAMBDA b : b.expo_push_token # "")

\* the set a body submits for one filter
submittedSet(x) == IF x = NULL THEN <<>> ELSE x.array

C19_OnePerTokenLastWins ==
    /\ {subscriptions[k].expo_push_token : k \in 1..Len(subscriptions)}
          = {accepted[k].expo_push_token : k \in 1..Len(accepted)}
    /\ \A j, k \in 1..Len(subscriptions) :
          subscriptions[j].expo_push_token = subscriptions[k].expo_push_token => j = k
    /\ \A k \in 1..Len(subscriptions) :
          LET last == accepted[SetMax({j \in 1..Len(accepted) :
                          accepted[j].expo_push_token = subscriptions[k].expo_push_token})]
          IN  /\ subscriptions[k].counties = submittedSet(last.counties)
              /\ subscriptions[k].species = submittedSet(last.species)
              /\ subscriptions[k].waters = submittedSet(last.waters)

\* a token was submitted twice with different filters; the second time one
\* set was left out, one was empty and one was new
C19_Witness ==
    /\ Len(accepted) = 2
    /\ accepted[1].expo_push_token = accepted[2].expo_push_token
    /\ accepted[1].counties # NULL /\ accepted[1].counties.array # <<>>
    /\ accepted[1].species # NULL /\ accepted[1].species.array # <<>>
    /\ accepted[2].counties = Arr(<<>>)
    /\ accepted[2].species = NULL
    /\ accepted[2].waters # NULL /\ accepted[2].waters.array # <<>>
    /\ Len(subscriptions) = 1

(***************************************************************************)
(* C20: a stored event stays as it is for ever: no step removes a row of   *)
(* stock_events or changes a field of it, first_seen_at included, also     *)
(* when a later cycle extracts the same id with a newer first_seen_at.     *)
(***************************************************************************)
C20_EventsImmutable ==
    [][/\ Len(stock_events') >= Len(stock_events)
       /\ \A k \in 1..Len(stock_events) : stock_events'[k] = stock_events[k]]_vars

\* a cycle has gone through its transaction with an event whose id the
\* store held with an older first_seen_at, which it still has
C20_Witness ==
    \E p \in Procs :
        /\ cyc[p].pc = "select"
        /\ \E e \in 1..Len(cyc[p].events), r \in 1..Len(stock_events) :
              /\ cyc[p].events[e].id = stock_events[r].id
              /\ cyc[p].events[e].first_seen_at > stock_events[r].first_seen_at

(***************************************************************************)
(* C21: both extractors build the id from one fingerprint layout: the id   *)
(* the free-text extractor gives an event is the id the tabular extractor  *)
(* gives a row with the same water, county, species, quantity (absent),    *)
(* length (absent) and date.                                               *)
(***************************************************************************)
\* the cell of a table row that holds the date d, YYYY-MM-DD, as MM/DD/YYYY
dateCell(d) == SubSeq(d, 6, 7) \o <<"/">> \o SubSeq(d, 9, 10) \o <<"/">> \o SubSeq(d, 1, 4)

\* the table row with the six field values of e, an event without quantity
\* and length
rowOf(e) == <<e.water_name, e.county, e.species, <<>>, <<>>, dateCell(e.date_stocked)>>

C21_SameIdBothExtractors ==
    (arg.fn = "fetchColoradoEvents" /\ Len(res) >= 1) =>
        \A k \in 1..Len(res[1]) :
            LET e == res[1][k]
                rows == parseDwrFishStockingHtml(<<rowOf(e)>>, e.first_seen_at)
            IN  (Len(rows) = 1 /\ sixFields(rows[1]) = sixFields(e)) => rows[1].id = e.id

(***************************************************************************)
(* C22: every event an extractor returns has its county and its species in *)
(* upper case, whatever the case of the text of the page.                  *)
(***************************************************************************)
C22_CountySpeciesUpperCase ==
    arg.fn \in {"parseDwrFishStockingHtml", "fetchColoradoEvents"} =>
        \A k \in 1..Len(res) :
            \A j \in 1..Len(res[k]) :
                /\ res[k][j].county = toUpperCase(res[k][j].county)
                /\ res[k][j].species = toUpperCase(res[k][j].species)

(***************************************************************************)
(* C23: the events one extraction returns have pairwise different ids: of  *)
(* the rows of a page (the triples of a section) with one id the first is  *)
(* kept, and the kept ones stand in the order of the page.                 *)
(***************************************************************************)
\* of the events evs those that no earlier one shares its id with, in order
firstOfEachId(evs) ==
    LET keep == {j \in 1..Len(evs) : \A i \in 1..(j - 1) : evs[i].id # evs[j].id}
    IN  [n \in 1..Cardinality(keep) |->
            evs[CHOOSE j \in keep : Cardinality({i \in keep : i <= j}) = n]]

\* the events of the rows of a page, before the dedup
eventsOfRows(page, t) == Concat([r \in 1..Len(page) |-> parseRow(page[r], t)])

C23_NoDuplicateIdInBatch ==
    /\ arg.fn = "parseDwrFishStockingHtml" =>
          \A k \in 1..Len(res) :
              /\ \A i, j \in 1..Len(res[k]) : res[k][i].id = res[k][j].id => i = j
              /\ res[k] = firstOfEachId(eventsOfRows(arg.html[k], arg.now[k]))
    /\ arg.fn = "fetchColoradoEvents" =>
          \A k \in 1..Len(res) :
              /\ \A i, j \in 1..Len(res[k]) : res[k][i].id = res[k][j].id => i = j
              /\ res[k] = firstOfEachId(walk(lines(Concat(arg.blocks)), 1, k))

\* a page of three rows, the third the stocking of the first written in
\* another way: the events of the first and the second row came back
C23_Witness ==
    /\ arg.fn = "parseDwrFishStockingHtml"
    /\ Len(res) = 1
    /\ Len(arg.html[1]) = 3
    /\ LET all == eventsOfRows(arg.html[1], arg.now[1])
       IN  /\ Len(all) = 3
           /\ arg.html[1][1] # arg.html[1][3]
           /\ all[1].id = all[3].id
           /\ all[1].id # all[2].id
           /\ res[1] = <<all[1], all[2]>>

(***************************************************************************)
(* C26: the fingerprint of the tabular extractor is injective on the six   *)
(* fields: two rows of a page whose water, county, species, quantity,      *)
(* length and date differ in any way, also when a text holds the delimiter *)
(* |, get different ids, and the dedup merges no two of them.              *)
(***************************************************************************)
C26_FingerprintInjective ==
    arg.fn = "parseDwrFishStockingHtml" =>
        \A k \in 1..Len(res) :
            LET all == eventsOfRows(arg.html[k], arg.now[k])
            IN  /\ \A i, j \in 1..Len(all) :
                      sixFields(all[i]) # sixFields(all[j]) => all[i].id # all[j].id
                /\ {sixFields(res[k][j]) : j \in 1..Len(res[k])}
                      = {sixFields(all[j]) : j \in 1..Len(all)}

(***************************************************************************)
(* C25: the body of a notification reads water (county), a long dash, the  *)
(* quantity phrase, the length suffix, a long dash, the date.  The phrase  *)
(* is the quantity with thousands separators and " fish" for every event   *)
(* that has a quantity, and "Fish stocked" only for an event without one;  *)
(* the suffix is there exactly when the event has an average length.       *)
(***************************************************************************)
\* the decimal digits of n in groups of three from the right
RECURSIVE separated(_)
separated(ds) ==
    IF Len(ds) <= 3 THEN ds
    ELSE separated(SubSeq(ds, 1, Len(ds) - 3)) \o <<",">> \o SubSeq(ds, Len(ds) - 2, Len(ds))

quantityPhrase(e) ==
    IF e.quantity # NULL
    THEN separated(NatToStr(e.quantity.int)) \o <<" ","f","i","s","h">>
    ELSE <<"F","i","s","h"," ","s","t","o","c","k","e","d">>

lengthSuffix(e) ==
    IF e.avg_length # NULL
    THEN <<" ", BULLET, " ">> \o NumToStr(e.avg_length) \o <<"\""," ","a","v","g">>
    ELSE <<>>

C25_QuantityPhrase ==
    (arg.fn = "formatNotification" /\ res # <<>>) =>
        res[1].body = arg.event.water_name \o <<" ", "(">> \o arg.event.county
                      \o <<")", " ", EMDASH, " ">> \o quantityPhrase(arg.event)
                      \o lengthSuffix(arg.event) \o <<" ", EMDASH, " ">>
                      \o arg.event.date_stocked

(***************************************************************************)
(* C27: over the poll cycles, a pair of a token and an event id is handed  *)
(* to the push transport in at most one cycle, and that cycle is the one   *)
(* that inserted the event; so also after a push call that failed: the     *)
(* events stay stored and no later cycle sends a message for them.         *)
(***************************************************************************)
\* the pairs of token and event id in the calls of the transport of a cycle
handed(c) ==
    UNION {{dedupKey(c.calls[n][m]) : m \in 1..Len(c.calls[n])} : n \in 1..Len(c.calls)}

C27_PairPushedOnce ==
    \A j, k \in 1..Len(Matched) :
        /\ j # k => handed(Matched[j]) \cap handed(Matched[k]) = {}
        /\ \A pr \in handed(Matched[k]) : pr[2] \in idsOf(Matched[k].written)

(***************************************************************************)
(* C28: every summary runPollOnce returns has inserted <= parsed,          *)
(* matchedMessages <= inserted * subscriptions and pushed =                *)
(* matchedMessages.                                                        *)
(***************************************************************************)
C28_SummaryCounts ==
    \A k \in 1..Len(hist) :
        hist[k].outcome = "summary" =>
            LET s == hist[k].summary
            IN  /\ s.inserted <= s.parsed
                /\ s.matchedMessages <= s.inserted * s.subscriptions
                /\ s.pushed = s.matchedMessages

\* a summary of a cycle that parsed two events and inserted one of them,
\* with two subscriptions that both matched it
C28_Witness ==
    \E k \in 1..Len(hist) :
        /\ hist[k].outcome = "summary"
        /\ hist[k].summary.parsed = 2
        /\ hist[k].summary.inserted = 1
        /\ hist[k].summary.subscriptions = 2
        /\ hist[k].summary.matchedMessages = 2
        /\ hist[k].summary.pushed = 2

(***************************************************************************)
(* C30: whatever the query parameter limit is (missing, zero, negative,    *)
(* not a number, above 200), GET /events/recent returns at most 200        *)
(* events.                                                                 *)
(***************************************************************************)
C30_AtMost200 ==
    (arg.fn \in {"getRecentEvents", "eventsRecent"} /\ res # <<>>) => Len(res[1]) <= 200

(***************************************************************************)
(* C24: the walk takes the window of the lines i, i+1, i+2 exactly when    *)
(* none of the three is a header or footer label, the lines i and i+1 are  *)
(* not date-shaped and the line i+2 is; after a window it took the next    *)
(* window starts at i+3, after one it did not take at i+1.  So the walk    *)
(* terminates on every input (every turn moves i on, i is bounded by the   *)
(* number of lines, and the walk is never stuck before it has returned),   *)
(* no line is part of two triples it took, and n lines give at most        *)
(* n div 3 events.                                                         *)
(***************************************************************************)
\* a header or footer label, whatever its case; a line is date-shaped when
\* it is a text D[D]/D[D]/DDDD (IsDateShape)
isLabel(l) == toLowerCase(trim(l)) \in bad

\* the window at i is a water, a region and a date
windowRule(ls, i) ==
    /\ ~isLabel(ls[i]) /\ ~isLabel(ls[i + 1]) /\ ~isLabel(ls[i + 2])
    /\ ~IsDateShape(trim(ls[i])) /\ ~IsDateShape(trim(ls[i + 1]))
    /\ IsDateShape(trim(ls[i + 2]))

C24_WalkRule ==
    /\ [][(arg.fn = "walk" /\ res.pc = "loop" /\ res'.pc = "loop") =>
             IF windowRule(walkLines, res.i)
             THEN /\ res'.i = res.i + 3
                  /\ res'.accepted = Append(res.accepted, res.i)
                  /\ Len(res'.events) = Len(res.events) + 1
             ELSE /\ res'.i = res.i + 1
                  /\ res'.accepted = res.accepted
                  /\ res'.events = res.events]_vars
    /\ [](arg.fn = "walk" =>
             /\ \A j, k \in 1..Len(res.accepted) :
                   j < k => res.accepted[k] >= res.accepted[j] + 3
             /\ Len(res.events) = Len(res.accepted)
             /\ Len(res.events) <= Len(walkLines) \div 3
             /\ Len(res.result) <= Len(walkLines) \div 3
             /\ res.i <= Len(walkLines) + 3
             \* a turn tests the window at i (it is a triple or it is not)
             \* when there are three lines left, and the walk returns when
             \* there are not
             /\ \/ res.pc = "returned"
                \/ res.pc = "loop" /\ res.i <= Len(walkLines) - 2
                \/ ENABLED walkReturn)

(***************************************************************************)
(* C29: fetchJsonWithRetry makes at most `attempts` requests (6 when the   *)
(* argument is left out); it returns the body of the first request that    *)
(* succeeds (HTTP ok, body not flagged ok: false) and makes no request     *)
(* after it; when every attempt fails it ends by throwing the error of the *)
(* last attempt.  It terminates: every step is a request, the end of a     *)
(* sleep or the end of the call, there are at most `attempts` of each of   *)
(* the first two, and the call is never stuck before it has ended.         *)
(***************************************************************************)
\* the request was answered with a 2xx status and a body without ok: false
succeeded(r) ==
    /\ "rejected" \notin DOMAIN r
    /\ r.status \in 200..299
    /\ "ok" \in DOMAIN r.body => r.body.ok # "false"

\* the body of a response as an object, the empty object if it is no JSON
bodyOf(r) ==
    IF "text" \in DOMAIN r.body THEN Json("undefined", "undefined", "undefined") ELSE r.body

\* the error a failed attempt ends with
errorOf(r) ==
    [message |->
        IF "rejected" \in DOMAIN r THEN r.rejected
        ELSE IF bodyOf(r).error # "undefined" THEN bodyOf(r).error
             ELSE httpMessage(r.status)]

C29_RetryBounded ==
    /\ [](arg.fn = "fetchJsonWithRetry" =>
             LET n == attemptsOf(arg.attempts)
                 rq == res.requests
             IN  /\ Len(rq) <= n
                 /\ \A k \in 1..(Len(rq) - 1) : ~succeeded(rq[k])
                 /\ res.pc = "returned" =>
                       /\ Len(rq) >= 1
                       /\ succeeded(rq[Len(rq)])
                       /\ res.result = bodyOf(rq[Len(rq)])
                 /\ res.pc = "thrown" =>
                       /\ Len(rq) = n
                       /\ \A k \in 1..n : ~succeeded(rq[k])
                       /\ n >= 1 => res.result = errorOf(rq[n])
                 /\ res.i <= n
                 /\ res.pc \in {"returned", "thrown"} \/ ENABLED NextLoop)
    /\ [][arg.fn = "fetchJsonWithRetry" =>
             \/ res'.pc \in {"returned", "thrown"}
             \/ Len(res'.requests) + res'.i = Len(res.requests) + res.i + 1]_vars

\* called without `attempts`, six requests failed, the first and the last
\* in different ways, and the call has thrown
C29_Witness ==
    /\ arg.fn = "fetchJsonWithRetry"
    /\ arg.attempts = NULL
    /\ res.pc = "thrown"
    /\ Len(res.requests) = 6
    /\ errorOf(res.requests[1]) # errorOf(res.requests[6])
    /\ res.result = [message |-> "HTTP 503"]

====
